---- MODULE Spec2Model ----
(***************************************************************************)
(* The quotation / invoice back end as a state machine.                    *)
(*                                                                         *)
(* Two server variants exist in the source:                                *)
(*   - the token-authenticated server (src/unnamed/part_000), whose        *)
(*     handlers resolve the caller from the bearer token;                  *)
(*   - the userId-parameter server                                         *)
(*     (src/supabase/functions/server/index.tsx), whose handlers take the  *)
(*     owner id from the request.                                          *)
(* Every handler is an async function: it runs without interruption up to  *)
(* an `await` on the key-value store and can be overtaken there by another *)
(* request.  A handler is therefore a sequence of steps, one per store     *)
(* operation; Spec runs the requests one at a time, SpecConc lets two      *)
(* requests interleave at their awaits.                                    *)
(***************************************************************************)
EXTENDS Integers, Sequences, FiniteSets, TLC

\* ------------------------------------------------------------- bounds
MaxClock == 2        \* the clock takes the values 1..MaxClock
MaxReqs == 3         \* requests received in a behaviour of Spec
MaxAuthReqs == 2     \* requests received in a behaviour of SpecAuth
MaxConcReqs == 3     \* requests received in a behaviour of SpecConc
MaxParamReqs == 2    \* requests received in a behaviour of SpecParam
MaxUuids == 2        \* ids crypto.randomUUID() can return
StartYear == 2026    \* calendar year of clock value 0
TicksPerDay == 1     \* clock ticks in one day
MaxInvReqs == 4      \* requests of a behaviour of SpecInvoices
MaxInvClock == 3     \* largest clock value of SpecInvoices
MaxCount == 10000    \* largest invoice count the numbering is applied to

\* ----------------------------------------------------- program constants
PadWidth == 4            \* padStart(4, '0')
DefaultTermDays == 30    \* paymentTermDays / dueDate offset of a conversion

\* --------------------------------------------------------------- text
\* A string is modelled as the sequence of its characters, so that a
\* template literal is a concatenation and a format can be inspected.
Digits == <<"0", "1", "2", "3", "4", "5", "6", "7", "8", "9">>

DigitSet == {Digits[i] : i \in 1..10}

RECURSIVE Str(_)
\* `${n}` / String(n) of a non-negative integer
Str(n) == IF n < 10 THEN <<Digits[n + 1]>>
          ELSE Str(n \div 10) \o <<Digits[(n % 10) + 1]>>

\* String.prototype.padStart(len, ch): pads on the left up to len, and
\* returns the string unchanged when it is already that long or longer.
PadStart(s, len, ch) ==
  IF Len(s) >= len THEN s ELSE [i \in 1..(len - Len(s)) |-> ch] \o s

\* JSON null in a string-valued field
Null == <<"null">>

\* new Date(t).toISOString(): an injective rendering of the instant t
ISO(t) == <<"@">> \o Str(t)

\* new Date(t).getFullYear()
FullYear(t) == StartYear + (t \div (365 * TicksPerDay))

\* d.setDate(d.getDate() + n)
AddDays(t, n) == t + n * TicksPerDay

\* ------------------------------------------------------------ objects
\* A JSON object is a function from field names to values; a field whose
\* value is `undefined` is absent (JSON serialisation drops it).
EmptyObj == [f \in {} |-> f]

Has(o, f) == f \in DOMAIN o

\* { f: src.f } of an object literal
Fld(f, src) == IF Has(src, f) THEN f :> src[f] ELSE EmptyObj

\* { g: src.f } of an object literal
FldAs(g, f, src) == IF Has(src, f) THEN g :> src[f] ELSE EmptyObj

\* { ...o, f: src.f }: f takes src's value, also when that is undefined
Assign(o, f, src) ==
  IF Has(src, f) THEN (f :> src[f]) @@ o
  ELSE [x \in DOMAIN o \ {f} |-> o[x]]

\* src.f || dflt, for string-valued, number-valued and list-valued fields
OrStr(src, f, dflt) == IF Has(src, f) /\ src[f] # "" THEN src[f] ELSE dflt

OrNum(src, f, dflt) == IF Has(src, f) /\ src[f] # 0 THEN src[f] ELSE dflt

OrText(src, f, dflt) ==
  IF Has(src, f) /\ src[f] # <<>> /\ src[f] # Null THEN src[f] ELSE dflt

OrList(src, f, dflt) == IF Has(src, f) THEN src[f] ELSE dflt

\* { ...a, ...b }: the fields of b override those of a
Spread(a, b) == b @@ a

\* ---------------------------------------------------- key-value store
\* mutant of Key: the key is not scoped by the owner, `${type}:${id}`
KeyUnscoped(type, uid, id) == <<type, "", id>>

\* `${type}:${uid}:${id}`
Key(type, uid, id) == <<type, uid, id>>

ProfileKey(uid) == <<"user", uid, <<>>>>

KvGet(store, k) == IF k \in DOMAIN store THEN {store[k]} ELSE {}

KvSet(store, k, v) ==
  [x \in DOMAIN store \cup {k} |-> IF x = k THEN v ELSE store[x]]

KvDel(store, k) == [x \in DOMAIN store \ {k} |-> store[x]]

PrefixKeys(store, type, uid) ==
  {k \in DOMAIN store : k[1] = type /\ k[2] = uid}

KvGetByPrefix(store, type, uid) ==
  {store[k] : k \in PrefixKeys(store, type, uid)}

\* existingInvoices?.length || 0
KvCount(store, type, uid) == Cardinality(PrefixKeys(store, type, uid))

\* -------------------------------------------------- identity provider
\* user: null
NoUser == ""

\* error: null
NoError == ""

\* no Authorization header on the request
NoHeader == <<>>

\* Users whose account exists before the server starts, and the one that
\* can be created through POST /signup.  A user's id doubles as the
\* access token the provider issued to that user.
ExternalUsers == {"A", "B"}

SignupUsers == {"C"}

AllUsers == ExternalUsers \cup SignupUsers

\* Tokens a caller can present: the users' tokens (the token of a user
\* that has no account is rejected), one for which the provider answers
\* without error and without user, one on which the provider call throws.
Tokens == AllUsers \cup {"void", "throw"}

Headers == {NoHeader} \cup {<<"Bearer ", t>> : t \in Tokens}

\* the requests a signed-in user's pages send, and requests without a token
Session(u) == {NoHeader, <<"Bearer ", u>>}

\* authHeader.replace('Bearer ', '')
TokenOf(hdr) == IF hdr[1] = "Bearer " THEN hdr[2] ELSE hdr[1] \o hdr[2]

\* supabase.auth.getUser(token): { data: { user }, error }, or an exception
ProviderGetUser(token, accounts) ==
  CASE token \in accounts -> [user |-> token, error |-> NoError, throws |-> FALSE]
    [] token = "void" -> [user |-> NoUser, error |-> NoError, throws |-> FALSE]
    [] token = "throw" -> [user |-> NoUser, error |-> NoError, throws |-> TRUE]
    [] OTHER -> [user |-> NoUser, error |-> "invalid JWT", throws |-> FALSE]

getUserFromToken(authHeader, accounts) ==
  IF authHeader = NoHeader
  THEN [user |-> NoUser, error |-> "No authorization header"]
  ELSE LET r == ProviderGetUser(TokenOf(authHeader), accounts) IN
       IF r.throws THEN [user |-> NoUser, error |-> "Token verification failed"]
       ELSE IF r.error # NoError THEN [user |-> NoUser, error |-> r.error]
       ELSE [user |-> r.user, error |-> NoError]

\* mutant of Unauthorized: only the error is tested, `if (error)`
UnauthorizedErrorOnly(a) == a.error # NoError

\* if (error || !user) return 401
Unauthorized(a) == a.error # NoError \/ a.user = NoUser

\* --------------------------------------------------- sequence numbers
\* `OFF-${timestamp}`
QuotationNumber(timestamp) == <<"O", "F", "F", "-">> \o Str(timestamp)

\* mutant of NextNumber: the counter starts one too high
NextNumberSkipping(count) == count + 2

\* (existingInvoices?.length || 0) + 1
NextNumber(count) == count + 1

\* `FAC-${year}-${String(nextNumber).padStart(4, '0')}`
InvoiceNumber(year, nextNumber) ==
  <<"F", "A", "C", "-">> \o Str(year) \o <<"-">>
    \o PadStart(Str(nextNumber), PadWidth, "0")

\* ------------------------------------------------------------ records
\* POST /quotations: the stored quotation
NewQuotation(uid, data, t) ==
  ("id" :> Str(t)) @@ ("quotationNumber" :> QuotationNumber(t))
    @@ ("userId" :> uid)
    @@ Fld("clientName", data) @@ Fld("clientAddress", data)
    @@ Fld("description", data) @@ Fld("price", data)
    @@ Fld("vatPercentage", data)
    @@ ("status" :> OrStr(data, "status", "draft"))
    @@ ("date" :> OrText(data, "date", ISO(t)))
    @@ ("createdAt" :> ISO(t)) @@ ("updatedAt" :> ISO(t))

\* mutant of UpdatedQuotation: the merge forces no field but updatedAt
UpdatedQuotationUnforced(current, updates, uid, t) ==
  ("updatedAt" :> ISO(t)) @@ Spread(current, updates)

\* PUT /quotations/:id: { ...current, ...updates, userId, id, quotationNumber, updatedAt }
UpdatedQuotation(current, updates, uid, t) ==
  ("userId" :> uid) @@ ("updatedAt" :> ISO(t))
    @@ Assign(Assign(Spread(current, updates), "id", current),
              "quotationNumber", current)

\* POST /invoices: the stored invoice
NewInvoice(uid, data, count, t) ==
  ("id" :> Str(t))
    @@ ("invoiceNumber" :> InvoiceNumber(FullYear(t), NextNumber(count)))
    @@ ("userId" :> uid)
    @@ Fld("clientName", data) @@ Fld("clientAddress", data)
    @@ Fld("description", data) @@ Fld("price", data)
    @@ Fld("vatPercentage", data)
    @@ ("lineItems" :> OrList(data, "lineItems", <<>>))
    @@ ("status" :> OrStr(data, "status", "draft"))
    @@ ("date" :> OrText(data, "date", ISO(t)))
    @@ ("dueDate" :> OrText(data, "dueDate", Null))
    @@ ("paidDate" :> OrText(data, "paidDate", Null))
    @@ ("quotationId" :> OrText(data, "quotationId", Null))
    @@ ("quotationNumber" :> OrText(data, "quotationNumber", Null))
    @@ ("paymentTermDays" :> OrNum(data, "paymentTermDays", DefaultTermDays))
    @@ ("notes" :> OrStr(data, "notes", ""))
    @@ ("createdAt" :> ISO(t)) @@ ("updatedAt" :> ISO(t))

\* mutant of UpdatedInvoice: the body replaces the record instead of being
\* merged into it
UpdatedInvoiceReplaced(current, updates, uid, t) ==
  ("userId" :> uid) @@ ("updatedAt" :> ISO(t))
    @@ Assign(Assign(updates, "id", current), "invoiceNumber", current)

\* PUT /invoices/:id: { ...current, ...updates, userId, id, invoiceNumber, updatedAt }
UpdatedInvoice(current, updates, uid, t) ==
  ("userId" :> uid) @@ ("updatedAt" :> ISO(t))
    @@ Assign(Assign(Spread(current, updates), "id", current),
              "invoiceNumber", current)

\* mutant of ConvertedInvoice: the quotation is treated as the body of
\* POST /invoices
ConvertedInvoiceAsNew(uid, quotation, count, t) ==
  NewInvoice(uid, quotation, count, t)

\* convert-to-invoice: the invoice built from the quotation
ConvertedInvoice(uid, quotation, count, t) ==
  ("id" :> Str(t))
    @@ ("invoiceNumber" :> InvoiceNumber(FullYear(t), NextNumber(count)))
    @@ ("userId" :> uid)
    @@ Fld("clientName", quotation) @@ Fld("clientAddress", quotation)
    @@ Fld("description", quotation) @@ Fld("price", quotation)
    @@ Fld("vatPercentage", quotation)
    @@ ("lineItems" :> OrList(quotation, "lineItems", <<>>))
    @@ ("status" :> "sent")
    @@ ("date" :> ISO(t))
    @@ ("dueDate" :> ISO(AddDays(t, DefaultTermDays)))
    @@ ("paidDate" :> Null)
    @@ FldAs("quotationId", "id", quotation)
    @@ Fld("quotationNumber", quotation)
    @@ ("paymentTermDays" :> DefaultTermDays)
    @@ ("notes" :> "")
    @@ ("createdAt" :> ISO(t)) @@ ("updatedAt" :> ISO(t))

\* if (quotation.status !== 'accepted')
NeedsAccept(quotation) == quotation["status"] # "accepted"

\* mutant of AcceptedQuotation: no back-reference is recorded
AcceptedQuotationNoRef(quotation, invoice, t) ==
  ("status" :> "accepted") @@ ("updatedAt" :> ISO(t)) @@ quotation

\* convert-to-invoice: { ...quotation, status: 'accepted', invoiceId, updatedAt }
AcceptedQuotation(quotation, invoice, t) ==
  ("status" :> "accepted") @@ ("invoiceId" :> invoice["id"])
    @@ ("updatedAt" :> ISO(t)) @@ quotation

\* POST /signup: the stored profile
NewProfile(uid, body, t) ==
  [userId |-> uid, email |-> body["email"],
   name |-> OrStr(body, "name", ""),
   companyName |-> OrStr(body, "companyName", ""),
   address |-> "", phone |-> "", kvkNumber |-> "", vatNumber |-> "",
   createdAt |-> ISO(t)]

\* PUT /profile: { ...currentProfile, ...updates, userId, updatedAt }
UpdatedProfile(current, updates, uid, t) ==
  ("userId" :> uid) @@ ("updatedAt" :> ISO(t))
    @@ Spread(IF current = {} THEN EmptyObj ELSE CHOOSE p \in current : TRUE,
              updates)

\* ----------------------------------------------------- request inputs
\* ids a caller can put in the path: every id the server can have issued
PathIds == {Str(t) : t \in 1..MaxClock}

Item1 == [description |-> "Design", unitPrice |-> 100, quantity |-> 2,
          vatPercentage |-> 21]

\* the payload the quotation form submits
QuotationForm ==
  [clientName |-> "Acme", clientAddress |-> "Dam 1", description |-> "Design",
   price |-> 200, vatPercentage |-> 21, lineItems |-> <<Item1>>,
   status |-> "sent"]

\* the payload the invoice form submits
InvoiceForm ==
  [clientName |-> "Acme", clientAddress |-> "Dam 1", description |-> "Design",
   price |-> 200, vatPercentage |-> 21, lineItems |-> <<Item1>>,
   status |-> "sent", paymentTermDays |-> 14]

\* a body that tries to set the server-controlled fields
Forged(victim) ==
  [userId |-> victim, id |-> <<"9">>, quotationNumber |-> <<"X">>,
   invoiceNumber |-> <<"X">>, clientName |-> "Mallory"]

ForgedBy(u) == Forged(CHOOSE v \in AllUsers : v # u)

\* the body of the invoice page's mark-as-paid request
MarkPaid(t) == [status |-> "paid", paidDate |-> ISO(t)]

CreateQuotationBodies(u) == {QuotationForm, ForgedBy(u)}

UpdateQuotationBodies(u) ==
  {[status |-> "sent"], [status |-> "accepted"],
   [lineItems |-> <<Item1>>, price |-> 200], ForgedBy(u)}

CreateInvoiceBodies(u) == {InvoiceForm, ForgedBy(u)}

UpdateInvoiceBodies(u, t) == {MarkPaid(t), [notes |-> "net 14"], ForgedBy(u)}

ProfileBodies(u) == {[companyName |-> "Acme BV"], [userId |-> ForgedBy(u)["userId"]]}

SignupBodies == {[email |-> "c@x", password |-> "pw", name |-> "Carol"],
                 [email |-> "c@x"]}

\* the account the provider creates for an e-mail address
AccountOf(email) == "C"

\* -------------------------------------------------------------- state
VARIABLES
  kv,      \* the key-value store: key -> stored JSON object
  idp,     \* the accounts the identity provider knows
  now,     \* the server clock (Date.now())
  req,     \* per request slot: the handler's position and local variables
  left,    \* requests the behaviour can still receive
  ui       \* the browser: the page it shows and that page's React state

vars == <<kv, idp, now, req, left, ui>>

\* the browser before any page has rendered: the page, the handler that ran
\* last with the API calls it made, and what the page shows
NoPage == [page |-> "", handler |-> "", calls |-> <<>>, shown |-> {}]

Slots == {"s1", "s2"}

\* a slot that holds no request
Idle ==
  [pc |-> "idle", op |-> "", hdr |-> NoHeader, user |-> NoUser,
   error |-> NoError, id |-> <<>>, body |-> EmptyObj, cur |-> {},
   cnt |-> 0, inv |-> {}, status |-> 0, ret |-> {}]

\* the server has started: the store is empty and no request is in flight
Started(budget) ==
  /\ kv = EmptyObj
  /\ idp = ExternalUsers
  /\ now = 1
  /\ req = [s \in Slots |-> Idle]
  /\ left = budget
  /\ ui = NoPage

Init == Started(MaxReqs)

\* a new request is taken by a slot that handles none
Accept(s) ==
  /\ req[s].pc \in {"idle", "done", "threw"}
  /\ left > 0
  /\ left' = left - 1

\* the handler's locals after  const { user, error } = await getUserFromToken(...)
Received(op, hdr) ==
  LET a == getUserFromToken(hdr, idp) IN
  [Idle EXCEPT !.op = op, !.hdr = hdr, !.user = a.user, !.error = a.error]

\* return c.json(..., status)
Reply(s, r, status, ret) ==
  req' = [req EXCEPT ![s] = [r EXCEPT !.pc = "done", !.status = status,
                                      !.ret = ret, !.cur = {}, !.cnt = 0,
                                      !.inv = {}]]

\* the handler suspends at an await
Suspend(s, r, pc) == req' = [req EXCEPT ![s] = [r EXCEPT !.pc = pc]]

The(set) == CHOOSE x \in set : TRUE

\* the clock advances
TickTo(max) ==
  /\ now < max
  /\ now' = now + 1
  /\ UNCHANGED <<kv, idp, req, left, ui>>

Tick == TickTo(MaxClock)

\* ------------------------------------ token-authenticated server: steps
\* GET /health
Health(s) ==
  /\ Accept(s)
  /\ Reply(s, [Idle EXCEPT !.op = "GET /health"], 200, {})
  /\ UNCHANGED <<kv, idp, now, ui>>

\* POST /signup, up to the provider call
Signup(s) ==
  \E body \in SignupBodies :
    /\ Accept(s)
    /\ LET r == [Idle EXCEPT !.op = "POST /signup", !.body = body] IN
       IF ~(Has(body, "email") /\ Has(body, "password"))
       THEN Reply(s, r, 400, {}) /\ UNCHANGED idp
       ELSE IF AccountOf(body["email"]) \in idp
       THEN Reply(s, r, 400, {}) /\ UNCHANGED idp
       ELSE /\ idp' = idp \cup {AccountOf(body["email"])}
            /\ Suspend(s, [r EXCEPT !.user = AccountOf(body["email"])], "profile")
    /\ UNCHANGED <<kv, now, ui>>

\* POST /signup: kv.set of the profile, and the response
SignupStore(s) ==
  /\ req[s].pc = "profile"
  /\ req[s].op = "POST /signup"
  /\ kv' = KvSet(kv, ProfileKey(req[s].user),
                 NewProfile(req[s].user, req[s].body, now))
  /\ Reply(s, req[s], 200, {})
  /\ UNCHANGED <<idp, now, left, ui>>

\* GET /profile
GetProfile(s, H) ==
  \E hdr \in H :
    /\ Accept(s)
    /\ LET r == Received("GET /profile", hdr)
           profile == KvGet(kv, ProfileKey(r.user)) IN
       IF Unauthorized(r) THEN Reply(s, r, 401, {})
       ELSE IF profile = {} THEN Reply(s, r, 404, {})
       ELSE Reply(s, r, 200, profile)
    /\ UNCHANGED <<kv, idp, now, ui>>

\* PUT /profile, up to kv.get
PutProfile(s, H) ==
  \E hdr \in H :
    /\ Accept(s)
    /\ LET r == Received("PUT /profile", hdr) IN
       IF Unauthorized(r) THEN Reply(s, r, 401, {})
       ELSE \E updates \in ProfileBodies(r.user) :
              Suspend(s, [r EXCEPT !.body = updates,
                                   !.cur = KvGet(kv, ProfileKey(r.user))],
                      "profile")
    /\ UNCHANGED <<kv, idp, now, ui>>

\* PUT /profile: kv.set of the merged profile, and the response
PutProfileStore(s) ==
  /\ req[s].pc = "profile"
  /\ req[s].op = "PUT /profile"
  /\ LET updated == UpdatedProfile(req[s].cur, req[s].body, req[s].user, now) IN
       /\ kv' = KvSet(kv, ProfileKey(req[s].user), updated)
       /\ Reply(s, req[s], 200, {updated})
  /\ UNCHANGED <<idp, now, left, ui>>

\* POST /quotations
PostQuotation(s, H) ==
  \E hdr \in H :
    /\ Accept(s)
    /\ LET r == Received("POST /quotations", hdr) IN
       IF Unauthorized(r) THEN Reply(s, r, 401, {}) /\ UNCHANGED kv
       ELSE \E data \in CreateQuotationBodies(r.user) :
              LET quotation == NewQuotation(r.user, data, now) IN
                /\ kv' = KvSet(kv, Key("quotation", r.user, quotation["id"]),
                               quotation)
                /\ Reply(s, [r EXCEPT !.body = data], 200, {quotation})
    /\ UNCHANGED <<idp, now, ui>>

\* GET /quotations and GET /invoices
ListHandler(s, H, op, type) ==
  \E hdr \in H :
    /\ Accept(s)
    /\ LET r == Received(op, hdr) IN
       IF Unauthorized(r) THEN Reply(s, r, 401, {})
       ELSE Reply(s, r, 200, KvGetByPrefix(kv, type, r.user))
    /\ UNCHANGED <<kv, idp, now, ui>>

GetQuotations(s, H) == ListHandler(s, H, "GET /quotations", "quotation")

\* GET /quotations/:id and GET /invoices/:id
GetHandler(s, H, op, type) ==
  \E hdr \in H, id \in PathIds :
    /\ Accept(s)
    /\ LET r == Received(op, hdr)
           found == KvGet(kv, Key(type, r.user, id)) IN
       IF Unauthorized(r) THEN Reply(s, r, 401, {})
       ELSE IF found = {} THEN Reply(s, [r EXCEPT !.id = id], 404, {})
       ELSE Reply(s, [r EXCEPT !.id = id], 200, found)
    /\ UNCHANGED <<kv, idp, now, ui>>

GetQuotation(s, H) == GetHandler(s, H, "GET /quotations/:id", "quotation")

\* PUT /quotations/:id and PUT /invoices/:id, up to kv.get
PutHandler(s, H, op, type) ==
  \E hdr \in H, id \in PathIds :
    /\ Accept(s)
    /\ LET r == Received(op, hdr)
           current == KvGet(kv, Key(type, r.user, id)) IN
       IF Unauthorized(r) THEN Reply(s, r, 401, {})
       ELSE IF current = {} THEN Reply(s, [r EXCEPT !.id = id], 404, {})
       ELSE Suspend(s, [r EXCEPT !.id = id, !.cur = current], "write")
    /\ UNCHANGED <<kv, idp, now, ui>>

PutQuotation(s, H) == PutHandler(s, H, "PUT /quotations/:id", "quotation")

\* PUT /quotations/:id: the merge, kv.set and the response
PutQuotationStore(s) ==
  /\ req[s].pc = "write"
  /\ req[s].op = "PUT /quotations/:id"
  /\ \E updates \in UpdateQuotationBodies(req[s].user) :
       LET updated == UpdatedQuotation(The(req[s].cur), updates,
                                       req[s].user, now) IN
         /\ kv' = KvSet(kv, Key("quotation", req[s].user, req[s].id), updated)
         /\ Reply(s, [req[s] EXCEPT !.body = updates], 200, {updated})
  /\ UNCHANGED <<idp, now, left, ui>>

\* DELETE /quotations/:id and DELETE /invoices/:id
DeleteHandler(s, H, op, type) ==
  \E hdr \in H, id \in PathIds :
    /\ Accept(s)
    /\ LET r == Received(op, hdr) IN
       IF Unauthorized(r) THEN Reply(s, r, 401, {}) /\ UNCHANGED kv
       ELSE /\ kv' = KvDel(kv, Key(type, r.user, id))
            /\ Reply(s, [r EXCEPT !.id = id], 200, {})
    /\ UNCHANGED <<idp, now, ui>>

DeleteQuotation(s, H) == DeleteHandler(s, H, "DELETE /quotations/:id", "quotation")

\* POST /invoices, up to kv.getByPrefix
PostInvoice(s, H) ==
  \E hdr \in H :
    /\ Accept(s)
    /\ LET r == Received("POST /invoices", hdr) IN
       IF Unauthorized(r) THEN Reply(s, r, 401, {})
       ELSE \E data \in CreateInvoiceBodies(r.user) :
              Suspend(s, [r EXCEPT !.body = data,
                                   !.cnt = KvCount(kv, "invoice", r.user)],
                      "create")
    /\ UNCHANGED <<kv, idp, now, ui>>

\* POST /invoices: the number, the record, kv.set and the response
PostInvoiceStore(s) ==
  /\ req[s].pc = "create"
  /\ req[s].op = "POST /invoices"
  /\ LET invoice == NewInvoice(req[s].user, req[s].body, req[s].cnt, now) IN
       /\ kv' = KvSet(kv, Key("invoice", req[s].user, invoice["id"]), invoice)
       /\ Reply(s, req[s], 200, {invoice})
  /\ UNCHANGED <<idp, now, left, ui>>

GetInvoices(s, H) == ListHandler(s, H, "GET /invoices", "invoice")

GetInvoice(s, H) == GetHandler(s, H, "GET /invoices/:id", "invoice")

PutInvoice(s, H) == PutHandler(s, H, "PUT /invoices/:id", "invoice")

\* PUT /invoices/:id: the merge, kv.set and the response
PutInvoiceStore(s) ==
  /\ req[s].pc = "write"
  /\ req[s].op = "PUT /invoices/:id"
  /\ \E updates \in UpdateInvoiceBodies(req[s].user, now) :
       LET updated == UpdatedInvoice(The(req[s].cur), updates,
                                     req[s].user, now) IN
         /\ kv' = KvSet(kv, Key("invoice", req[s].user, req[s].id), updated)
         /\ Reply(s, [req[s] EXCEPT !.body = updates], 200, {updated})
  /\ UNCHANGED <<idp, now, left, ui>>

DeleteInvoice(s, H) == DeleteHandler(s, H, "DELETE /invoices/:id", "invoice")

\* POST /quotations/:id/convert-to-invoice, up to kv.get of the quotation
Convert(s, H) ==
  \E hdr \in H, id \in PathIds :
    /\ Accept(s)
    /\ LET r == Received("POST /quotations/:id/convert-to-invoice", hdr)
           quotation == KvGet(kv, Key("quotation", r.user, id)) IN
       IF Unauthorized(r) THEN Reply(s, r, 401, {})
       ELSE IF quotation = {} THEN Reply(s, [r EXCEPT !.id = id], 404, {})
       ELSE Suspend(s, [r EXCEPT !.id = id, !.cur = quotation], "count")
    /\ UNCHANGED <<kv, idp, now, ui>>

\* convert-to-invoice: kv.getByPrefix of the caller's invoices
ConvertCount(s) ==
  /\ req[s].pc = "count"
  /\ Suspend(s, [req[s] EXCEPT !.cnt = KvCount(kv, "invoice", req[s].user)],
             "create")
  /\ UNCHANGED <<kv, idp, now, left, ui>>

\* convert-to-invoice: the invoice, its kv.set, and the response when the
\* quotation is already accepted
ConvertStore(s) ==
  /\ req[s].pc = "create"
  /\ req[s].op = "POST /quotations/:id/convert-to-invoice"
  /\ LET quotation == The(req[s].cur)
         invoice == ConvertedInvoice(req[s].user, quotation, req[s].cnt, now) IN
       /\ kv' = KvSet(kv, Key("invoice", req[s].user, invoice["id"]), invoice)
       /\ IF NeedsAccept(quotation)
          THEN Suspend(s, [req[s] EXCEPT !.inv = {invoice}], "accept")
          ELSE Reply(s, req[s], 200, {invoice})
  /\ UNCHANGED <<idp, now, left, ui>>

\* convert-to-invoice: kv.set of the accepted quotation, and the response
ConvertAccept(s) ==
  /\ req[s].pc = "accept"
  /\ LET invoice == The(req[s].inv) IN
       /\ kv' = KvSet(kv, Key("quotation", req[s].user, req[s].id),
                      AcceptedQuotation(The(req[s].cur), invoice, now))
       /\ Reply(s, req[s], 200, {invoice})
  /\ UNCHANGED <<idp, now, left, ui>>

\* one step of a request in slot s, the requests carrying a header of H
Step(s, H) ==
  \/ Health(s) \/ Signup(s) \/ SignupStore(s)
  \/ GetProfile(s, H) \/ PutProfile(s, H) \/ PutProfileStore(s)
  \/ PostQuotation(s, H) \/ GetQuotations(s, H) \/ GetQuotation(s, H)
  \/ PutQuotation(s, H) \/ PutQuotationStore(s) \/ DeleteQuotation(s, H)
  \/ PostInvoice(s, H) \/ PostInvoiceStore(s) \/ GetInvoices(s, H)
  \/ GetInvoice(s, H) \/ PutInvoice(s, H) \/ PutInvoiceStore(s)
  \/ DeleteInvoice(s, H)
  \/ Convert(s, H) \/ ConvertCount(s) \/ ConvertStore(s) \/ ConvertAccept(s)

\* requests of one signed-in user, handled one at a time
Next == Tick \/ Step("s1", Session("A"))

Spec == Init /\ [][Next]_vars

\* requests of every caller, handled one at a time
InitAuth == Started(MaxAuthReqs)

NextAuth == Tick \/ Step("s1", Headers)

SpecAuth == InitAuth /\ [][NextAuth]_vars

\* the writing requests of one signed-in user's two browser tabs, which
\* interleave at their awaits
Tab(s) ==
  \/ PostQuotation(s, {<<"Bearer ", "A">>})
  \/ PutQuotation(s, {<<"Bearer ", "A">>}) \/ PutQuotationStore(s)
  \/ DeleteQuotation(s, {<<"Bearer ", "A">>})
  \/ PostInvoice(s, {<<"Bearer ", "A">>}) \/ PostInvoiceStore(s)
  \/ PutInvoice(s, {<<"Bearer ", "A">>}) \/ PutInvoiceStore(s)
  \/ DeleteInvoice(s, {<<"Bearer ", "A">>})
  \/ Convert(s, {<<"Bearer ", "A">>}) \/ ConvertCount(s)
  \/ ConvertStore(s) \/ ConvertAccept(s)

InitConc == Started(MaxConcReqs)

NextConc == Tick \/ \E s \in Slots : Tab(s)

SpecConc == InitConc /\ [][NextConc]_vars

\* one signed-in user's two browser tabs creating and deleting invoices
InvoiceTab(s) ==
  \/ PostInvoice(s, {<<"Bearer ", "A">>}) \/ PostInvoiceStore(s)
  \/ DeleteInvoice(s, {<<"Bearer ", "A">>})

InitInvoices == Started(MaxInvReqs)

NextInvoices == TickTo(MaxInvClock) \/ \E s \in Slots : InvoiceTab(s)

SpecInvoices == InitInvoices /\ [][NextInvoices]_vars

\* the numbering of POST /invoices, applied to every count that
\* kv.getByPrefix can have returned for the caller
InitNumbering ==
  /\ kv = EmptyObj
  /\ idp = ExternalUsers
  /\ now \in 1..MaxClock
  /\ left = 0
  /\ ui = NoPage
  /\ \E count \in 0..MaxCount, data \in CreateInvoiceBodies("A") :
       req = [s \in Slots |->
                IF s = "s1"
                THEN [Received("POST /invoices", <<"Bearer ", "A">>)
                        EXCEPT !.pc = "create", !.body = data, !.cnt = count]
                ELSE Idle]

NextNumbering == PostInvoiceStore("s1")

SpecNumbering == InitNumbering /\ [][NextNumbering]_vars

\* --------------------------------------- userId-parameter server: steps
\* crypto.randomUUID(): an id no stored record carries
Uuids == {<<"u">> \o Str(i) : i \in 1..MaxUuids}

FreshUuids(store) == Uuids \ {k[3] : k \in DOMAIN store}

\* c.req.query("userId") / data.userId; "" when the caller gives none
ParamUsers == {"", "A", "B"}

\* POST /quotations of the userId-parameter server: the stored quotation
NewQuotationParam(id, data, t) ==
  ("id" :> id) @@ Fld("userId", data)
    @@ Fld("clientName", data) @@ Fld("clientAddress", data)
    @@ Fld("description", data) @@ Fld("price", data)
    @@ Fld("vatPercentage", data)
    @@ ("status" :> OrStr(data, "status", "draft"))
    @@ ("date" :> OrText(data, "date", ISO(t)))
    @@ ("createdAt" :> ISO(t)) @@ ("updatedAt" :> ISO(t))

\* PUT /quotations/:id of the userId-parameter server: { ...current, ...updates, updatedAt }
UpdatedQuotationParam(current, updates, t) ==
  ("updatedAt" :> ISO(t)) @@ Spread(current, updates)

\* the handler's locals: the header the request carried (never read) and
\* the owner id the handler uses
ReceivedParam(op, hdr, userId) ==
  [Idle EXCEPT !.op = op, !.hdr = hdr, !.user = userId]

\* POST /quotations
PostQuotationParam(s) ==
  \E hdr \in Session("A"), userId \in ParamUsers, id \in FreshUuids(kv) :
    /\ Accept(s)
    /\ LET data == IF userId = "" THEN QuotationForm
                   ELSE ("userId" :> userId) @@ QuotationForm
           r == [ReceivedParam("POST /quotations", hdr, userId)
                   EXCEPT !.body = data] IN
       IF ~Has(data, "userId") THEN Reply(s, r, 400, {}) /\ UNCHANGED kv
       ELSE LET quotation == NewQuotationParam(id, data, now) IN
              /\ kv' = KvSet(kv, Key("quotation", data["userId"],
                                     quotation["id"]), quotation)
              /\ Reply(s, r, 200, {quotation})
    /\ UNCHANGED <<idp, now, ui>>

\* GET /quotations
GetQuotationsParam(s) ==
  \E hdr \in Session("A"), userId \in ParamUsers :
    /\ Accept(s)
    /\ LET r == ReceivedParam("GET /quotations", hdr, userId) IN
       IF userId = "" THEN Reply(s, r, 400, {})
       ELSE Reply(s, r, 200, KvGetByPrefix(kv, "quotation", userId))
    /\ UNCHANGED <<kv, idp, now, ui>>

\* GET /quotations/:id
GetQuotationParam(s) ==
  \E hdr \in Session("A"), userId \in ParamUsers, id \in Uuids :
    /\ Accept(s)
    /\ LET r == [ReceivedParam("GET /quotations/:id", hdr, userId)
                   EXCEPT !.id = id]
           quotation == KvGet(kv, Key("quotation", userId, id)) IN
       IF userId = "" THEN Reply(s, r, 400, {})
       ELSE IF quotation = {} THEN Reply(s, r, 404, {})
       ELSE Reply(s, r, 200, quotation)
    /\ UNCHANGED <<kv, idp, now, ui>>

\* PUT /quotations/:id, up to kv.get
PutQuotationParam(s) ==
  \E hdr \in Session("A"), userId \in ParamUsers, id \in Uuids :
    /\ Accept(s)
    /\ LET r == [ReceivedParam("PUT /quotations/:id", hdr, userId)
                   EXCEPT !.id = id]
           current == KvGet(kv, Key("quotation", userId, id)) IN
       IF userId = "" THEN Reply(s, r, 400, {})
       ELSE IF current = {} THEN Reply(s, r, 404, {})
       ELSE Suspend(s, [r EXCEPT !.cur = current], "writeParam")
    /\ UNCHANGED <<kv, idp, now, ui>>

\* PUT /quotations/:id: the merge, kv.set and the response
PutQuotationParamStore(s) ==
  /\ req[s].pc = "writeParam"
  /\ \E updates \in UpdateQuotationBodies(req[s].user) :
       LET updated == UpdatedQuotationParam(The(req[s].cur), updates, now) IN
         /\ kv' = KvSet(kv, Key("quotation", req[s].user, req[s].id), updated)
         /\ Reply(s, [req[s] EXCEPT !.body = updates], 200, {updated})
  /\ UNCHANGED <<idp, now, left, ui>>

\* DELETE /quotations/:id
DeleteQuotationParam(s) ==
  \E hdr \in Session("A"), userId \in ParamUsers, id \in Uuids :
    /\ Accept(s)
    /\ LET r == [ReceivedParam("DELETE /quotations/:id", hdr, userId)
                   EXCEPT !.id = id] IN
       IF userId = "" THEN Reply(s, r, 400, {}) /\ UNCHANGED kv
       ELSE /\ kv' = KvDel(kv, Key("quotation", userId, id))
            /\ Reply(s, r, 200, {})
    /\ UNCHANGED <<idp, now, ui>>

\* requests to the userId-parameter server, handled one at a time
InitParam == Started(MaxParamReqs)

NextParam ==
  \/ Tick
  \/ PostQuotationParam("s1") \/ GetQuotationsParam("s1")
  \/ GetQuotationParam("s1") \/ PutQuotationParam("s1")
  \/ PutQuotationParamStore("s1") \/ DeleteQuotationParam("s1")

SpecParam == InitParam /\ [][NextParam]_vars

\* ================================================================ claims
\* the endpoints other than /health and /signup
ProtectedOps ==
  {"GET /profile", "PUT /profile",
   "POST /quotations", "GET /quotations", "GET /quotations/:id",
   "PUT /quotations/:id", "DELETE /quotations/:id",
   "POST /invoices", "GET /invoices", "GET /invoices/:id",
   "PUT /invoices/:id", "DELETE /invoices/:id",
   "POST /quotations/:id/convert-to-invoice"}

\* slot s receives a request in this step
Receives(s) == req[s].pc \in {"idle", "done"} /\ req'[s] # req[s]

\* the request carries no Authorization header, or a token that belongs to
\* no account of the identity provider
Rejected(hdr) == hdr = NoHeader \/ TokenOf(hdr) \notin idp

\* C1: in the token-authenticated server a request to a protected endpoint
\* that carries no Authorization header or a token the provider rejects is
\* answered 401 in the step that receives it and leaves the store unchanged.
C1_Unauthorized401 ==
  [][\A s \in Slots :
       (Receives(s) /\ req'[s].op \in ProtectedOps /\ Rejected(req'[s].hdr))
         => (req'[s].pc = "done" /\ req'[s].status = 401 /\ kv' = kv)]_vars

\* C1 witness: a request with a rejected token has been answered 401 while
\* the store holds records.
C1_Witness ==
  \E s \in Slots :
    /\ req[s].pc = "done" /\ req[s].status = 401
    /\ req[s].op \in ProtectedOps
    /\ req[s].hdr # NoHeader
    /\ kv # EmptyObj

\* C2: a step of a request authenticated as user u never creates, changes or
\* deletes a key of another user's prefix, and no record it returns is a
\* record stored under another user's prefix.
C2_Isolation ==
  [][\A s \in Slots :
       (req'[s] # req[s] /\ req'[s].user # NoUser)
         => /\ \A k \in DOMAIN kv \cup DOMAIN kv' :
                 k[2] # req'[s].user
                   => k \in DOMAIN kv /\ k \in DOMAIN kv' /\ kv'[k] = kv[k]
            /\ \A r \in req'[s].ret : \A k \in DOMAIN kv :
                 k[2] # req'[s].user => kv[k] # r]_vars

\* C2 witness: a user's DELETE that names the id of another user's quotation
\* has been answered with success and that quotation is still stored.
C2_Witness ==
  \E s \in Slots : \E k \in DOMAIN kv :
    /\ req[s].pc = "done" /\ req[s].status = 200
    /\ req[s].op = "DELETE /quotations/:id"
    /\ k[1] = "quotation" /\ k[3] = req[s].id /\ k[2] # req[s].user

\* C3: every quotations endpoint of the userId-parameter server answers 401
\* to a request without a valid bearer token, leaving the store unchanged,
\* and otherwise uses the token's user as the owner id of the storage key.
C3_ParamServerVerifiesToken ==
  [][\A s \in Slots :
       Receives(s)
         => IF Rejected(req'[s].hdr)
            THEN req'[s].pc = "done" /\ req'[s].status = 401 /\ kv' = kv
            ELSE req'[s].user = TokenOf(req'[s].hdr)]_vars

ConvertOp == "POST /quotations/:id/convert-to-invoice"

\* the fields convert-to-invoice copies from the quotation
CopiedFields ==
  {"clientName", "clientAddress", "description", "price", "vatPercentage"}

\* field f is the same in a and b: absent in both, or present and equal
SameField(a, b, f) ==
  IF Has(a, f) THEN Has(b, f) /\ b[f] = a[f] ELSE ~Has(b, f)

\* the invoice has the content convert-to-invoice promises for quotation q
\* at conversion time t
ConvertedFrom(invoice, q, t) ==
  /\ \A f \in CopiedFields : SameField(q, invoice, f)
  /\ invoice["lineItems"] = IF Has(q, "lineItems") THEN q["lineItems"] ELSE <<>>
  /\ invoice["status"] = "sent"
  /\ invoice["paidDate"] = Null
  /\ invoice["paymentTermDays"] = 30
  /\ invoice["dueDate"] = ISO(t + 30 * TicksPerDay)
  /\ invoice["quotationId"] = q["id"]
  /\ invoice["quotationNumber"] = q["quotationNumber"]

\* C4: the step of convert-to-invoice that stores the invoice writes exactly
\* one key, a key of the caller's invoice prefix; the record stored there is
\* the invoice of this call and has the quotation's clientName,
\* clientAddress, description, price, vatPercentage and lineItems (the empty
\* list when the quotation has none), status 'sent', paidDate null,
\* paymentTermDays 30, dueDate 30 days after the conversion time, the
\* quotation's id as quotationId and the quotation's number as quotationNumber.
C4_ConvertedInvoice ==
  [][\A s \in Slots :
       (req[s].pc = "create" /\ req[s].op = ConvertOp /\ req'[s] # req[s])
         => \E k \in DOMAIN kv' :
              /\ k[1] = "invoice" /\ k[2] = req[s].user
              /\ kv' = (k :> kv'[k]) @@ kv
              /\ kv'[k]["id"] = k[3]
              /\ kv'[k] \in req'[s].ret \cup req'[s].inv
              /\ ConvertedFrom(kv'[k], kv[<<"quotation", req[s].user, req[s].id>>],
                               now)]_vars

\* C4 witness: a conversion has been answered 200 with an invoice that
\* carries line items, and that invoice is stored under the caller's prefix.
C4_Witness ==
  \E s \in Slots : \E i \in req[s].ret :
    /\ req[s].pc = "done" /\ req[s].status = 200 /\ req[s].op = ConvertOp
    /\ i["lineItems"] # <<>>
    /\ KvGet(kv, <<"invoice", req[s].user, i["id"]>>) = {i}

\* slot s answers a convert-to-invoice request with 200 in this step
ConvertReplies(s) ==
  /\ req[s].op = ConvertOp /\ req[s].pc \in {"create", "accept"}
  /\ req'[s].pc = "done" /\ req'[s].status = 200

\* C5: when convert-to-invoice answers 200, the stored quotation has status
\* 'accepted'; if its status was not 'accepted' before, its invoiceId is the
\* id of the invoice of this call and every other field except updatedAt is
\* unchanged.
C5_QuotationAccepted ==
  [][\A s \in Slots :
       ConvertReplies(s)
         => LET k == <<"quotation", req[s].user, req[s].id>> IN
            /\ k \in DOMAIN kv'
            /\ kv'[k]["status"] = "accepted"
            /\ kv[k]["status"] # "accepted"
                 => /\ Has(kv'[k], "invoiceId")
                    /\ \A i \in req'[s].ret : kv'[k]["invoiceId"] = i["id"]
                    /\ \A f \in (DOMAIN kv[k] \cup DOMAIN kv'[k])
                                 \ {"status", "invoiceId", "updatedAt"} :
                         SameField(kv[k], kv'[k], f)]_vars

\* C5 witness: a conversion of a quotation created with status 'sent' has
\* been answered 200 and the stored quotation is accepted and refers to the
\* returned invoice.
C5_Witness ==
  \E s \in Slots : \E i \in req[s].ret :
    LET k == <<"quotation", req[s].user, req[s].id>> IN
    /\ req[s].pc = "done" /\ req[s].status = 200 /\ req[s].op = ConvertOp
    /\ k \in DOMAIN kv
    /\ kv[k]["status"] = "accepted"
    /\ Has(kv[k], "invoiceId") /\ kv[k]["invoiceId"] = i["id"]
    /\ kv[k]["clientName"] = "Acme"

\* C6: when convert-to-invoice answers 200, the stored quotation's invoiceId
\* is the id of the invoice that call returns, also when the quotation is
\* converted again.
C6_BackReference ==
  [][\A s \in Slots :
       ConvertReplies(s)
         => LET k == <<"quotation", req[s].user, req[s].id>> IN
            /\ k \in DOMAIN kv'
            /\ Has(kv'[k], "invoiceId")
            /\ \A i \in req'[s].ret : kv'[k]["invoiceId"] = i["id"]]_vars

\* the sequence number of a record, or the empty set when it has none
NumberOf(k, record) ==
  LET f == IF k[1] = "quotation" THEN "quotationNumber" ELSE "invoiceNumber" IN
  IF k[1] \in {"quotation", "invoice"} /\ Has(record, f) THEN {record[f]} ELSE {}

\* the key under which the step of slot s stores a created invoice
CreatedKeys(s) ==
  IF req[s].pc = "create"
  THEN {<<"invoice", req[s].user, i["id"]>> : i \in req'[s].ret \cup req'[s].inv}
  ELSE {}

IsDigits(str) == Len(str) > 0 /\ \A i \in 1..Len(str) : str[i] \in DigitSet

\* OFF-<digits>
IsQuotationNumber(n) ==
  /\ Len(n) > 4
  /\ SubSeq(n, 1, 4) = <<"O", "F", "F", "-">>
  /\ IsDigits(SubSeq(n, 5, Len(n)))

\* FAC-<4-digit year>-<4-digit counter>
IsInvoiceNumber(n) ==
  /\ Len(n) = 13
  /\ SubSeq(n, 1, 4) = <<"F", "A", "C", "-">>
  /\ IsDigits(SubSeq(n, 5, 8))
  /\ n[9] = "-"
  /\ IsDigits(SubSeq(n, 10, 13))

\* the record carries a sequence number of the form of its type
WellNumbered(type, record) ==
  IF type = "quotation"
  THEN Has(record, "quotationNumber") /\ IsQuotationNumber(record["quotationNumber"])
  ELSE Has(record, "invoiceNumber") /\ IsInvoiceNumber(record["invoiceNumber"])

\* C8: every stored quotation carries a quotationNumber OFF-<digits> and
\* every stored invoice an invoiceNumber FAC-<4-digit year>-<4-digit
\* counter>, and so does every record a successful creation returns.
C8_NumberFormats ==
  /\ \A k \in DOMAIN kv :
       k[1] \in {"quotation", "invoice"} => WellNumbered(k[1], kv[k])
  /\ \A s \in Slots :
       (req[s].pc = "done" /\ req[s].status = 200)
         => /\ req[s].op = "POST /quotations"
                 => \A r \in req[s].ret : WellNumbered("quotation", r)
            /\ req[s].op \in {"POST /invoices", ConvertOp}
                 => \A r \in req[s].ret : WellNumbered("invoice", r)

\* slot s stores a created invoice in this step
CreatesInvoice(s) ==
  /\ req[s].pc = "create" /\ req'[s] # req[s]
  /\ req[s].op \in {"POST /invoices", ConvertOp}

\* C9: an invoice creation is never refused or renumbered: the invoice it
\* stores carries the count it read plus one as its counter, also when a
\* stored invoice of the same user already carries that number.
C9_CounterIsCountPlusOne ==
  [][\A s \in Slots :
       CreatesInvoice(s)
         => \E i \in req'[s].ret \cup req'[s].inv :
              /\ KvGet(kv', <<"invoice", req[s].user, i["id"]>>) = {i}
              /\ i["invoiceNumber"]
                   = InvoiceNumber(FullYear(now), req[s].cnt + 1)]_vars

\* two stored invoices of one user carry the invoice number n
Duplicate(n) ==
  \E k1, k2 \in DOMAIN kv :
    /\ k1 # k2 /\ k1[1] = "invoice" /\ k2[1] = "invoice" /\ k1[2] = k2[2]
    /\ kv[k1]["invoiceNumber"] = n /\ kv[k2]["invoiceNumber"] = n

\* C9 witness: two stored invoices of one user both carry the first number
\* of the year, which only two creations that read the same count produce.
C9_Witness ==
  /\ Duplicate(InvoiceNumber(StartYear, 1))
  /\ \A s \in Slots : req[s].pc = "done" /\ req[s].op = "POST /invoices"
  /\ left = MaxInvReqs - 2

\* C9, requests handled one at a time (the second tab is never used): the
\* user's only two stored invoices carry the same number, as after create,
\* create, delete the first, create.
C9_SequentialWitness ==
  /\ Duplicate(InvoiceNumber(StartYear, 2))
  /\ DOMAIN kv = {<<"invoice", "A", Str(2)>>, <<"invoice", "A", Str(3)>>}
  /\ req["s1"].pc = "done" /\ req["s1"].op = "POST /invoices"
  /\ req["s2"] = Idle

\* slot s completes a PUT in this step
PutWrites(s) == req[s].pc = "write" /\ req'[s] # req[s]

\* C10: a PUT is answered 200 and stores the merge of its body with the
\* record it read, whatever the store holds by then: a field its body does
\* not name gets the value it had when the request read the record, so
\* what another PUT stored in between is overwritten.
C10_LastWriteWins ==
  [][\A s \in Slots :
       PutWrites(s)
         => LET type == IF req[s].op = "PUT /quotations/:id"
                        THEN "quotation" ELSE "invoice"
                k == <<type, req[s].user, req[s].id>>
                read == The(req[s].cur)
                body == req'[s].body IN
            /\ req'[s].pc = "done" /\ req'[s].status = 200
            /\ k \in DOMAIN kv'
            /\ DOMAIN kv'[k] = DOMAIN read \cup DOMAIN body \cup {"updatedAt"}
            /\ \A f \in DOMAIN read \ (DOMAIN body \cup {"updatedAt"}) :
                 kv'[k][f] = read[f]]_vars

\* C10 witness: two PUTs on the same quotation have both been answered 200,
\* one with line items and one with a status, and the stored quotation has
\* the status but not the line items.
C10_Witness ==
  LET k == <<"quotation", "A", req["s1"].id>> IN
  /\ \A s \in Slots :
       req[s].pc = "done" /\ req[s].status = 200
         /\ req[s].op = "PUT /quotations/:id"
  /\ req["s1"].id = req["s2"].id
  /\ Has(req["s1"].body, "lineItems")
  /\ req["s2"].body = [status |-> "accepted"]
  /\ k \in DOMAIN kv
  /\ kv[k]["status"] = "accepted"
  /\ ~Has(kv[k], "lineItems")

\* the endpoints that address one quotation or invoice by the id in the path
AddressedType(op) ==
  IF op \in {"GET /quotations/:id", "PUT /quotations/:id",
             "DELETE /quotations/:id", ConvertOp} THEN {"quotation"}
  ELSE IF op \in {"GET /invoices/:id", "PUT /invoices/:id",
                  "DELETE /invoices/:id"} THEN {"invoice"}
  ELSE {}

\* C14: an authenticated GET, PUT, DELETE or convert-to-invoice request that
\* names an id under which the caller has no stored quotation (invoice) is
\* answered 404 in the step that receives it, and the store is unchanged.
C14_NotFound404 ==
  [][\A s \in Slots : \A type \in AddressedType(req'[s].op) :
       (Receives(s) /\ req'[s].user # NoUser
          /\ <<type, req'[s].user, req'[s].id>> \notin DOMAIN kv)
         => (req'[s].pc = "done" /\ req'[s].status = 404 /\ kv' = kv)]_vars

\* ================================================ line items and totals
\* A number that enters the totals arithmetic is held as a fixed-point
\* integer with two decimals (the number x is the integer Scale * x), so
\* that 4.5 is 450. The text fields of the forms are sequences of
\* characters. The line items drawn below have whole prices, quantities and
\* rates, for which every product and quotient below is exact.
Scale == 100

Num(n) == Scale * n

\* a * b of two fixed-point numbers
Times(a, b) == (a * b) \div Scale

DigitValue(c) == CHOOSE d \in 0..9 : Digits[d + 1] = c

RECURSIVE LeadingDigits(_)
\* the longest prefix of decimal digits
LeadingDigits(text) ==
  IF text = <<>> \/ Head(text) \notin DigitSet THEN <<>>
  ELSE <<Head(text)>> \o LeadingDigits(Tail(text))

RECURSIVE Numeral(_)
\* the value of a string of decimal digits
Numeral(ds) ==
  IF ds = <<>> THEN 0
  ELSE 10 * Numeral(SubSeq(ds, 1, Len(ds) - 1)) + DigitValue(ds[Len(ds)])

\* parseFloat(text) of a text without a decimal point: {} for NaN, else the
\* number the leading sign and digits denote; what follows them is ignored
parseFloat(text) ==
  LET neg == text # <<>> /\ Head(text) = "-"
      ds == LeadingDigits(IF neg THEN Tail(text) ELSE text) IN
  IF ds = <<>> THEN {}
  ELSE {IF neg THEN 0 - Num(Numeral(ds)) ELSE Num(Numeral(ds))}

\* x || dflt  of a number x: NaN and 0 are falsy
OrElse(x, dflt) == IF x = {} \/ x = {0} THEN dflt ELSE The(x)

\* String(x) of a whole number
String(x) ==
  IF x < 0 THEN <<"-">> \o Str((0 - x) \div Scale) ELSE Str(x \div Scale)

\* x.toFixed(2)
toFixed2(x) ==
  LET a == IF x < 0 THEN 0 - x ELSE x IN
  (IF x < 0 THEN <<"-">> ELSE <<>>)
    \o Str(a \div Scale) \o <<".">> \o PadStart(Str(a % Scale), 2, "0")

RECURSIVE Trim(_)
\* String.prototype.trim for blanks
Trim(text) ==
  IF text # <<>> /\ Head(text) = " " THEN Trim(Tail(text))
  ELSE IF text # <<>> /\ text[Len(text)] = " "
  THEN Trim(SubSeq(text, 1, Len(text) - 1))
  ELSE text

RECURSIVE Sum(_)
\* ns.reduce((sum, n) => sum + n, 0)
Sum(ns) == IF ns = <<>> THEN 0 ELSE Head(ns) + Sum(Tail(ns))

RECURSIVE SumValues(_)
\* Object.values(o).reduce((sum, v) => sum + v, 0)
SumValues(o) ==
  IF DOMAIN o = {} THEN 0
  ELSE LET k == CHOOSE k \in DOMAIN o : TRUE IN
       o[k] + SumValues([j \in DOMAIN o \ {k} |-> o[j]])

RECURSIVE Grouped(_)
\* the digits of an integer part with a point before every group of three
Grouped(ds) ==
  IF Len(ds) <= 3 THEN ds
  ELSE Grouped(SubSeq(ds, 1, Len(ds) - 3)) \o <<".">>
         \o SubSeq(ds, Len(ds) - 2, Len(ds))

\* formatPrice: toLocaleString('nl-NL') with exactly two fraction digits
formatPrice(x) ==
  LET a == IF x < 0 THEN 0 - x ELSE x IN
  (IF x < 0 THEN <<"-">> ELSE <<>>)
    \o Grouped(Str(a \div Scale)) \o <<",">> \o PadStart(Str(a % Scale), 2, "0")

\* ---- the forms (QuotationForm.tsx and the invoice form, same code)
\* getLineItemTotal
getLineItemTotal(item) ==
  LET price == OrElse(parseFloat(item.unitPrice), 0)
      quantity == OrElse(parseFloat(item.quantity), 0) IN
  Times(price, quantity)

\* getLineItemVat
getLineItemVat(item) ==
  LET total == getLineItemTotal(item)
      vatPercentage == OrElse(parseFloat(item.vatPercentage), 0) IN
  Times(total, vatPercentage) \div 100

\* getSubtotal
getSubtotal(lineItems) ==
  Sum([i \in DOMAIN lineItems |-> getLineItemTotal(lineItems[i])])

\* getVatTotals: the VAT summed per vatPercentage text
getVatTotals(lineItems) ==
  [vat \in {lineItems[i].vatPercentage : i \in DOMAIN lineItems} |->
     Sum([i \in DOMAIN lineItems |->
            IF lineItems[i].vatPercentage = vat
            THEN getLineItemVat(lineItems[i]) ELSE 0])]

\* getTotalVat
getTotalVat(lineItems) ==
  Sum([i \in DOMAIN lineItems |-> getLineItemVat(lineItems[i])])

\* getGrandTotal
getGrandTotal(lineItems) == getSubtotal(lineItems) + getTotalVat(lineItems)

\* what the form renders under the line items: each line's running total,
\* and, when the subtotal is positive, the subtotal, one VAT line per rate
\* whose amount is positive, and the grand total
TotalsBlock(lineItems) ==
  [lines |-> [i \in DOMAIN lineItems |->
                toFixed2(getLineItemTotal(lineItems[i]))],
   totals |->
     IF getSubtotal(lineItems) > 0
     THEN {[subtotal |-> toFixed2(getSubtotal(lineItems)),
            vat |-> {<<vat, toFixed2(getVatTotals(lineItems)[vat])>> :
                       vat \in {v \in DOMAIN getVatTotals(lineItems) :
                                  getVatTotals(lineItems)[v] > 0}},
            total |-> toFixed2(getGrandTotal(lineItems))]}
     ELSE {}]

\* mutant of validLineItems: the price is not tested
validLineItemsAnyPrice(lineItems) ==
  SelectSeq(lineItems, LAMBDA item : Trim(item.description) # <<>>)

\* handleSubmit: the line items that have a description and a positive price
validLineItems(lineItems) ==
  SelectSeq(lineItems,
            LAMBDA item : /\ Trim(item.description) # <<>>
                          /\ parseFloat(item.unitPrice) # {}
                          /\ The(parseFloat(item.unitPrice)) > 0)

\* handleSubmit: a line item of the request body
PayloadItem(item) ==
  [description |-> item.description,
   unitPrice |-> OrElse(parseFloat(item.unitPrice), 0),
   quantity |-> OrElse(parseFloat(item.quantity), Num(1)),
   vatPercentage |-> OrElse(parseFloat(item.vatPercentage), Num(21))]

RECURSIVE Join(_)
\* descriptions.join('\n')
Join(texts) ==
  IF texts = <<>> THEN <<>>
  ELSE IF Len(texts) = 1 THEN texts[1]
  ELSE texts[1] \o <<"\n">> \o Join(Tail(texts))

\* handleSubmit: quotationData = { ...formData, description, price,
\* vatPercentage: 21, lineItems }
quotationData(formData, lineItems) ==
  LET valid == validLineItems(lineItems) IN
  Spread(formData,
         [description |-> Join([i \in DOMAIN valid |-> valid[i].description]),
          price |-> getSubtotal(lineItems),
          vatPercentage |-> Num(21),
          lineItems |-> [i \in DOMAIN valid |-> PayloadItem(valid[i])]])

\* handleSubmit of the invoice form: the same with paymentTermDays parsed
invoiceData(formData, lineItems) ==
  Spread(quotationData(formData, lineItems),
         [paymentTermDays |->
            Numeral(LeadingDigits(formData["paymentTermDays"]))])

\* ---- the detail pages and their PDF export
\* calculateVat
calculateVat(price, vatPercentage) == Times(price, vatPercentage) \div 100

\* calculateTotal
calculateTotal(price, vatPercentage) == price + calculateVat(price, vatPercentage)

\* the detail page's "Totaal incl. BTW"
DetailTotal(document) ==
  toFixed2(calculateTotal(document["price"], document["vatPercentage"]))

\* exportToPDF: the stored line items, or one line made of the document's
\* description and price
PdfLineItems(document) ==
  IF Has(document, "lineItems") /\ document["lineItems"] # <<>>
  THEN document["lineItems"]
  ELSE <<Fld("description", document) @@ FldAs("unitPrice", "price", document)
           @@ ("quantity" :> Num(1)) @@ Fld("vatPercentage", document)>>

\* exportToPDF: itemTotal and vatPct of each line, then subtotal, vatTotals,
\* totalVat and grandTotal. A stored field is a number or is missing.
PdfTotals(document) ==
  LET lineItems == PdfLineItems(document)
      stored(item, f) == IF Has(item, f) THEN {item[f]} ELSE {}
      itemTotal(item) == Times(OrElse(stored(item, "unitPrice"), 0),
                               OrElse(stored(item, "quantity"), Num(1)))
      vatPct(item) == String(OrElse(stored(item, "vatPercentage"), Num(21)))
      subtotal == Sum([i \in DOMAIN lineItems |-> itemTotal(lineItems[i])])
      vatTotals ==
        [pct \in {vatPct(lineItems[i]) : i \in DOMAIN lineItems} |->
           Sum([i \in DOMAIN lineItems |->
                  IF vatPct(lineItems[i]) = pct
                  THEN Times(itemTotal(lineItems[i]), The(parseFloat(pct)))
                         \div 100
                  ELSE 0])]
      totalVat == SumValues(vatTotals)
      grandTotal == subtotal + totalVat
  IN [lines |-> [i \in DOMAIN lineItems |-> formatPrice(itemTotal(lineItems[i]))],
      subtotal |-> formatPrice(subtotal),
      vat |-> {<<pct, formatPrice(vatTotals[pct])>> :
                 pct \in {v \in DOMAIN vatTotals : vatTotals[v] > 0}},
      grandTotal |-> formatPrice(grandTotal)]

\* ---- the pages that compute totals, for one document
MaxItems == 2    \* line items in a form

\* toISOString().split('T')[0] of day d
DateOnly(d) == <<"#">> \o Str(d)

\* a filled-in line: description, unit price, quantity, VAT rate
LineItem(description, unitPrice, quantity, vatPercentage) ==
  [description |-> description, unitPrice |-> unitPrice,
   quantity |-> quantity, vatPercentage |-> vatPercentage]

\* createEmptyLineItem (without its random id)
createEmptyLineItem == LineItem(<<>>, <<>>, Str(1), Str(21))

\* the VAT rates the form's select offers
VatOptions == {Str(0), Str(9), Str(21)}

\* lines a user can have typed: ordinary ones, the untouched empty line, and
\* lines with a negative or zero price, an empty, zero or non-numeric field,
\* or a blank description
LineItems ==
  {LineItem(<<"D">>, Str(p), Str(q), v) :
     p \in {50, 100}, q \in {1, 2}, v \in VatOptions}
  \cup {createEmptyLineItem,
        LineItem(<<"D">>, <<"-">> \o Str(50), Str(1), Str(21)),
        LineItem(<<"D">>, Str(0), Str(1), Str(21)),
        LineItem(<<"D">>, Str(100), <<>>, Str(21)),
        LineItem(<<"D">>, Str(100), Str(0), Str(21)),
        LineItem(<<"D">>, <<"a", "b", "c">>, Str(1), Str(21)),
        LineItem(<<" ">>, Str(50), Str(1), Str(9)),
        LineItem(<<"D">>, Str(100), Str(1), <<>>)}

LineItemLists == UNION {[1..n -> LineItems] : n \in 1..MaxItems}

\* the quotation form's formData
QuotationFormData ==
  [clientName |-> "Acme", clientAddress |-> "Dam 1", status |-> "draft",
   date |-> DateOnly(1), expiryDate |-> <<>>]

\* the invoice form's formData
InvoiceFormData ==
  [clientName |-> "Acme", clientAddress |-> "Dam 1", status |-> "draft",
   date |-> DateOnly(1), dueDate |-> DateOnly(31),
   paymentTermDays |-> Str(30), notes |-> ""]

\* the browser on a form with the given line items
OnForm(page, lineItems) ==
  [page |-> page, lineItems |-> lineItems, block |-> {}, error |-> "",
   sent |-> {}, detail |-> {}, pdf |-> {}]

TypeOfForm(page) == IF page = "create-quotation" THEN "quotation" ELSE "invoice"

InitTotals ==
  /\ kv = EmptyObj
  /\ idp = ExternalUsers
  /\ now = 1
  /\ req = [s \in Slots |-> Idle]
  /\ left = 0
  /\ ui \in {OnForm(page, lineItems) :
               page \in {"create-quotation", "create-invoice"},
               lineItems \in LineItemLists}

\* the form renders its line totals and its totals block
RenderTotals ==
  /\ ui.page \in {"create-quotation", "create-invoice"}
  /\ ui.block = {}
  /\ ui' = [ui EXCEPT !.block = {TotalsBlock(ui.lineItems)}]
  /\ UNCHANGED <<kv, idp, now, req, left>>

\* handleSubmit of a form whose user is signed in, together with the
\* POST /quotations or POST /invoices it awaits
HandleSubmit ==
  /\ ui.page \in {"create-quotation", "create-invoice"}
  /\ ui.sent = {} /\ ui.error = ""
  /\ IF validLineItems(ui.lineItems) = <<>>
     THEN /\ ui' = [ui EXCEPT !.error = "Voeg minimaal een regel toe"]
          /\ UNCHANGED kv
     ELSE LET data == IF ui.page = "create-quotation"
                      THEN quotationData(QuotationFormData, ui.lineItems)
                      ELSE invoiceData(InvoiceFormData, ui.lineItems)
              document == IF ui.page = "create-quotation"
                          THEN NewQuotation("A", data, now)
                          ELSE NewInvoice("A", data,
                                          KvCount(kv, "invoice", "A"), now) IN
            /\ kv' = KvSet(kv, Key(TypeOfForm(ui.page), "A", document["id"]),
                           document)
            /\ ui' = [ui EXCEPT !.sent = {data}]
  /\ UNCHANGED <<idp, now, req, left>>

\* the document the form has saved
Saved == KvGetByPrefix(kv, TypeOfForm(ui.page), "A")

\* the detail page of the saved document renders its totals
ViewDetail ==
  /\ ui.detail = {}
  /\ \E document \in Saved :
       ui' = [ui EXCEPT !.detail = {DetailTotal(document)}]
  /\ UNCHANGED <<kv, idp, now, req, left>>

\* exportToPDF on the detail page of the saved document
ExportToPDF ==
  /\ ui.pdf = {}
  /\ \E document \in Saved :
       ui' = [ui EXCEPT !.pdf = {PdfTotals(document)}]
  /\ UNCHANGED <<kv, idp, now, req, left>>

NextTotals == RenderTotals \/ HandleSubmit \/ ViewDetail \/ ExportToPDF

SpecTotals == InitTotals /\ [][NextTotals]_vars

\* ---- claims about the totals
\* the amount a rendered text shows, in hundredths: both renderings have
\* exactly two fraction digits
IsDigit(c) == c \in DigitSet

Amount(text) ==
  IF text # <<>> /\ Head(text) = "-"
  THEN 0 - Numeral(SelectSeq(text, IsDigit))
  ELSE Numeral(SelectSeq(text, IsDigit))

\* the sum of the amounts of a set of <<rate, text>> lines
SumOfLines(lines) == SumValues([l \in lines |-> Amount(l[2])])

\* C17: whenever a form shows its totals block, the subtotal shown plus the
\* VAT amounts shown per rate add up to the grand total shown.
C17_ShownTotalsAddUp ==
  \A b \in ui.block : \A t \in b.totals :
    Amount(t.subtotal) + SumOfLines(t.vat) = Amount(t.total)

\* a text that is a number: digits, possibly after a minus sign
IsNumeric(text) ==
  IsDigits(text) \/ (text # <<>> /\ Head(text) = "-" /\ IsDigits(Tail(text)))

\* the reference reading of a field: its number, or the default when the
\* field is empty or not a number
RefNumber(text, dflt) == IF IsNumeric(text) THEN The(parseFloat(text)) ELSE dflt

\* the reference totals of a list of line items
RefLineTotal(item) ==
  Times(RefNumber(item.unitPrice, 0), RefNumber(item.quantity, Num(1)))

RefLineVat(item) ==
  Times(RefLineTotal(item), RefNumber(item.vatPercentage, 0)) \div 100

RefSubtotal(lineItems) ==
  Sum([i \in DOMAIN lineItems |-> RefLineTotal(lineItems[i])])

RefVat(lineItems) == Sum([i \in DOMAIN lineItems |-> RefLineVat(lineItems[i])])

RefVatOfRate(lineItems, rate) ==
  Sum([i \in DOMAIN lineItems |->
         IF parseFloat(lineItems[i].vatPercentage) = parseFloat(rate)
         THEN RefLineVat(lineItems[i]) ELSE 0])

RefGrandTotal(lineItems) == RefSubtotal(lineItems) + RefVat(lineItems)

\* every price and quantity is a number and every rate is 0, 9 or 21
AllNumeric(lineItems) ==
  \A i \in DOMAIN lineItems :
    /\ IsNumeric(lineItems[i].unitPrice)
    /\ IsNumeric(lineItems[i].quantity)
    /\ lineItems[i].vatPercentage \in VatOptions

\* C18: for line items with numeric prices and quantities and rates 0, 9 or
\* 21, the subtotal, every VAT amount and the grand total of the form, and
\* those of the PDF exported for the document saved from them, are the
\* reference ones: sum of price * quantity, sum per rate of line total *
\* rate / 100, and subtotal plus all VAT.
C18_TotalsMatchReference ==
  AllNumeric(ui.lineItems) =>
    /\ \A b \in ui.block : \A t \in b.totals :
         /\ Amount(t.subtotal) = RefSubtotal(ui.lineItems)
         /\ \A l \in t.vat : Amount(l[2]) = RefVatOfRate(ui.lineItems, l[1])
         /\ Amount(t.total) = RefGrandTotal(ui.lineItems)
    /\ \A p \in ui.pdf :
         /\ Amount(p.subtotal) = RefSubtotal(ui.lineItems)
         /\ \A l \in p.vat : Amount(l[2]) = RefVatOfRate(ui.lineItems, l[1])
         /\ Amount(p.grandTotal) = RefGrandTotal(ui.lineItems)

\* C19: the running total a form shows for a line, the price and quantity
\* the submitted line item carries, and the line total of the PDF all take
\* an empty or non-numeric quantity as 1 and such a price as 0, and a
\* numeric one as it is.
C19_LineTotalDefaults ==
  /\ \A b \in ui.block : \A i \in DOMAIN ui.lineItems :
       Amount(b.lines[i]) = RefLineTotal(ui.lineItems[i])
  /\ \A data \in ui.sent :
       LET valid == validLineItems(ui.lineItems) IN
       \A i \in DOMAIN valid :
         /\ data["lineItems"][i].unitPrice = RefNumber(valid[i].unitPrice, 0)
         /\ data["lineItems"][i].quantity = RefNumber(valid[i].quantity, Num(1))
  /\ \A p \in ui.pdf : \A document \in Saved :
       LET lineItems == PdfLineItems(document) IN
       \A i \in DOMAIN lineItems :
         Amount(p.lines[i]) =
           Times(IF Has(lineItems[i], "unitPrice")
                 THEN lineItems[i]["unitPrice"] ELSE 0,
                 IF Has(lineItems[i], "quantity")
                 THEN lineItems[i]["quantity"] ELSE Num(1))

\* C20: for a document saved through a form whose lines carry the rates 0,
\* 9 or 21, the grand total of the form at submit, the total incl. VAT of
\* the detail page and the grand total of the PDF are the same amount.
C20_SameTotalInAllViews ==
  (ui.sent # {}
     /\ \A i \in DOMAIN ui.lineItems :
          ui.lineItems[i].vatPercentage \in VatOptions) =>
    /\ \A d \in ui.detail : Amount(d) = getGrandTotal(ui.lineItems)
    /\ \A p \in ui.pdf : Amount(p.grandTotal) = getGrandTotal(ui.lineItems)

\* ======================================================== failing calls
\* A key-value operation or  await c.req.json()  throws. The handlers whose
\* body is inside  try { ... } catch  answer 500 with a JSON error; in the
\* others the exception leaves the handler.
Fail(s, r) ==
  IF r.op \in {"POST /signup", "POST /quotations", "PUT /quotations/:id",
               "POST /invoices", "PUT /invoices/:id",
               "POST /quotations/:id/convert-to-invoice"}
  THEN Reply(s, r, 500, {})
  ELSE req' = [req EXCEPT ![s] = [r EXCEPT !.pc = "threw", !.cur = {},
                                           !.cnt = 0, !.inv = {}]]

\* the first such call of a handler throws: the body parse of POST /signup,
\* or the first body parse or key-value operation after the token check
ThrowOnArrival(s, H) ==
  \E hdr \in H,
     op \in {"POST /signup", "GET /profile", "PUT /profile",
             "POST /quotations", "GET /quotations", "GET /quotations/:id",
             "PUT /quotations/:id", "DELETE /quotations/:id",
             "POST /invoices", "GET /invoices", "GET /invoices/:id",
             "PUT /invoices/:id", "DELETE /invoices/:id",
             "POST /quotations/:id/convert-to-invoice"} :
    /\ Accept(s)
    /\ LET r == Received(op, hdr) IN
       IF op = "POST /signup" THEN Fail(s, [Idle EXCEPT !.op = op])
       ELSE IF Unauthorized(r) THEN Reply(s, r, 401, {})
       ELSE Fail(s, r)
    /\ UNCHANGED <<kv, idp, now, ui>>

\* a call after an earlier await of the handler throws
ThrowAtAwait(s) ==
  /\ req[s].pc \notin {"idle", "done", "threw"}
  /\ Fail(s, req[s])
  /\ UNCHANGED <<kv, idp, now, left, ui>>

NextFail == Next \/ ThrowOnArrival("s1", Session("A")) \/ ThrowAtAwait("s1")

SpecFail == Init /\ [][NextFail]_vars

\* C15: whenever a key-value operation or the body parse throws in a
\* handler, the handler answers 500 itself: no request ends with the
\* exception leaving its handler.
C15_NoExceptionEscapes == \A s \in Slots : req[s].pc # "threw"

\* the accounts POST /signup has created
SignedUp == idp \ ExternalUsers

\* C16: after every step, each user created through POST /signup whose
\* signup request has ended has a profile under user:<id> with userId <id>;
\* and no step removes a profile or changes its userId.
C16_OneProfilePerUser ==
  [][/\ \A u \in SignedUp' :
          (\A s \in Slots : ~(req'[s].op = "POST /signup"
                               /\ req'[s].pc = "profile" /\ req'[s].user = u))
            => /\ ProfileKey(u) \in DOMAIN kv'
               /\ kv'[ProfileKey(u)]["userId"] = u
     /\ \A u \in AllUsers :
          ProfileKey(u) \in DOMAIN kv
            => /\ ProfileKey(u) \in DOMAIN kv'
               /\ kv'[ProfileKey(u)]["userId"] = kv[ProfileKey(u)]["userId"]]_vars

\* ======================================================= the pages
\* The signed-in user A works in one browser tab. A handler of a page runs
\* together with the requests it awaits: the server handles each of them as
\* in the actions above, nobody else writes in between.
MaxPageReqs == 3    \* handlers the behaviour runs

\* new Date(text).getTime(): {} for an invalid date
ParseDate(text) ==
  IF text # <<>> /\ Head(text) = "@" /\ IsDigits(Tail(text))
  THEN {Numeral(Tail(text))}
  ELSE IF text # <<>> /\ Head(text) = "#" /\ IsDigits(Tail(text))
  THEN {Numeral(Tail(text)) * TicksPerDay}
  ELSE {}

\* mutant of processedInvoices: an invoice due exactly now counts as overdue
processedInvoicesInclusive(invoices, today) ==
  {IF /\ invoice["status"] = "sent"
      /\ invoice["dueDate"] \notin {<<>>, Null}
      /\ ParseDate(invoice["dueDate"]) # {}
      /\ The(ParseDate(invoice["dueDate"])) <= today
   THEN [invoice EXCEPT !["status"] = "overdue"]
   ELSE invoice : invoice \in invoices}

\* processedInvoices of fetchInvoices and fetchDashboardData
processedInvoices(invoices, today) ==
  {IF /\ invoice["status"] = "sent"
      /\ invoice["dueDate"] \notin {<<>>, Null}
      /\ ParseDate(invoice["dueDate"]) # {}
      /\ The(ParseDate(invoice["dueDate"])) < today
   THEN [invoice EXCEPT !["status"] = "overdue"]
   ELSE invoice : invoice \in invoices}

\* POST /clients: the client is stored under client:<userId>:<id>
PostClient(store, uid, data, t) ==
  KvSet(store, Key("client", uid, Str(t)),
        ("id" :> Str(t)) @@ ("userId" :> uid) @@ data)

\* DELETE /clients/:id: the key client:<userId>:<id> is deleted
DeleteClient(store, uid, id) == KvDel(store, Key("client", uid, id))

\* a handler of a page runs and makes the given API calls
Ran(page, handler, calls, shown) ==
  /\ left > 0
  /\ left' = left - 1
  /\ ui' = [page |-> page, handler |-> handler, calls |-> calls,
            shown |-> shown]

InitPages == Started(MaxPageReqs)

\* what handleSubmit of the quotation form sends for one line of 100 x 2
QuotationFormBody ==
  quotationData(QuotationFormData,
                <<LineItem(<<"D">>, Str(100), Str(2), Str(21))>>)

\* what handleSubmit of the invoice form sends for the same line, for every
\* status the form's select offers and a due date of day 1 or day 2
InvoiceFormBodies ==
  {invoiceData([InvoiceFormData EXCEPT !.status = status,
                                       !.dueDate = DateOnly(due)],
               <<LineItem(<<"D">>, Str(100), Str(2), Str(21))>>) :
     status \in {"draft", "sent", "paid", "overdue"}, due \in {1, 2}}

\* handleSubmit of the quotation form
QuotationFormSubmit ==
  /\ kv' = KvSet(kv, Key("quotation", "A", Str(now)),
                 NewQuotation("A", QuotationFormBody, now))
  /\ Ran("create-quotation", "handleSubmit", <<"POST /quotations">>, {})
  /\ UNCHANGED <<idp, now, req>>

\* handleSubmit of the invoice form: a new invoice, or the invoice the form
\* was opened for, with the status and the due date the user chose
InvoiceFormSubmit ==
  \E data \in InvoiceFormBodies,
     invoiceId \in {<<>>} \cup {k[3] : k \in PrefixKeys(kv, "invoice", "A")} :
    /\ IF invoiceId = <<>>
       THEN /\ kv' = KvSet(kv, Key("invoice", "A", Str(now)),
                           NewInvoice("A", data, KvCount(kv, "invoice", "A"),
                                      now))
            /\ Ran("create-invoice", "handleSubmit", <<"POST /invoices">>, {})
       ELSE /\ kv' = KvSet(kv, Key("invoice", "A", invoiceId),
                           UpdatedInvoice(kv[Key("invoice", "A", invoiceId)],
                                          data, "A", now))
            /\ Ran("edit-invoice", "handleSubmit", <<"PUT /invoices/:id">>, {})
    /\ UNCHANGED <<idp, now, req>>

\* handleMarkAsPaid of the invoice page, and the reload that follows
HandleMarkAsPaid ==
  \E k \in PrefixKeys(kv, "invoice", "A") :
    /\ kv' = KvSet(kv, k, UpdatedInvoice(kv[k], MarkPaid(now), "A", now))
    /\ Ran("invoice-detail", "handleMarkAsPaid",
           <<"PUT /invoices/:id", "GET /invoices/:id", "GET /profile">>, {})
    /\ UNCHANGED <<idp, now, req>>

\* handleConvertToInvoice, and the reload that follows
HandleConvertToInvoice ==
  \E k \in PrefixKeys(kv, "quotation", "A") :
    LET invoice == ConvertedInvoice("A", kv[k], KvCount(kv, "invoice", "A"), now)
        stored == KvSet(kv, Key("invoice", "A", invoice["id"]), invoice) IN
    /\ kv' = IF NeedsAccept(kv[k])
             THEN KvSet(stored, k, AcceptedQuotation(kv[k], invoice, now))
             ELSE stored
    /\ Ran("invoice-detail", "handleConvertToInvoice",
           <<"POST /quotations/:id/convert-to-invoice",
             "GET /clients/:id/history">>, {})
    /\ UNCHANGED <<idp, now, req>>

\* fetchInvoices of the invoice list
FetchInvoices ==
  /\ Ran("invoices", "fetchInvoices", <<"GET /invoices">>,
         processedInvoices(KvGetByPrefix(kv, "invoice", "A"), now))
  /\ UNCHANGED <<kv, idp, now, req>>

\* fetchDashboardData: the invoices the dashboard shows and counts
FetchDashboardData ==
  /\ Ran("dashboard", "fetchDashboardData",
         <<"GET /quotations", "GET /invoices", "GET /clients">>,
         processedInvoices(KvGetByPrefix(kv, "invoice", "A"), now))
  /\ UNCHANGED <<kv, idp, now, req>>

\* handleSubmit of the client form, for a new client
ClientFormSubmit ==
  /\ kv' = PostClient(kv, "A", [name |-> "Acme", address |-> "Dam 1"], now)
  /\ Ran("create-client", "handleSubmit", <<"POST /clients">>, {})
  /\ UNCHANGED <<idp, now, req>>

\* mutant of HandleDelete: the documents that carry the client's name are
\* deleted with the client
HandleDeleteCascading ==
  \E k \in PrefixKeys(kv, "client", "A") :
    /\ kv' = [x \in {y \in DOMAIN DeleteClient(kv, "A", k[3]) :
                       ~(Has(kv[y], "clientName")
                         /\ kv[y]["clientName"] = kv[k]["name"])} |-> kv[x]]
    /\ Ran("clients", "handleDelete", <<"DELETE /clients/:id">>, {})
    /\ UNCHANGED <<idp, now, req>>

\* handleDelete of the client page
HandleDelete ==
  \E k \in PrefixKeys(kv, "client", "A") :
    /\ kv' = DeleteClient(kv, "A", k[3])
    /\ Ran("clients", "handleDelete", <<"DELETE /clients/:id">>, {})
    /\ UNCHANGED <<idp, now, req>>

NextPages ==
  \/ Tick
  \/ QuotationFormSubmit \/ InvoiceFormSubmit \/ HandleMarkAsPaid
  \/ HandleConvertToInvoice \/ FetchInvoices \/ FetchDashboardData
  \/ ClientFormSubmit \/ HandleDelete

SpecPages == InitPages /\ [][NextPages]_vars

\* ---- claims about the pages
\* the due date of the invoice is an instant strictly before t
DueBefore(invoice, t) ==
  \/ \E u \in 0..t : invoice["dueDate"] = ISO(u) /\ u < t
  \/ \E d \in 0..t : invoice["dueDate"] = DateOnly(d) /\ d * TicksPerDay < t

\* the handler that ran in this step
Runs(handler) == left' < left /\ ui'.handler = handler

\* C11: when the invoice list or the dashboard loads, it makes GET requests
\* only and leaves the store as it is, and it shows every stored invoice:
\* as 'overdue' when its stored status is 'sent' and its due date is strictly
\* before now, and with its stored status otherwise.
C11_OverdueComputedOnLoad ==
  [][(Runs("fetchInvoices") \/ Runs("fetchDashboardData")) =>
       /\ kv' = kv
       /\ \A i \in DOMAIN ui'.calls :
            ui'.calls[i] \in {"GET /quotations", "GET /invoices", "GET /clients"}
       /\ ui'.shown =
            {[invoice EXCEPT !["status"] =
                IF invoice["status"] = "sent" /\ DueBefore(invoice, now)
                THEN "overdue" ELSE invoice["status"]] :
               invoice \in KvGetByPrefix(kv, "invoice", "A")}]_vars

\* the invoice list shows one invoice as overdue that is stored as sent, next
\* to an invoice it shows as sent
C11_Witness ==
  /\ ui.handler = "fetchInvoices"
  /\ \E a \in ui.shown, b \in ui.shown :
       /\ a["status"] = "overdue"
       /\ kv[Key("invoice", "A", a["id"])]["status"] = "sent"
       /\ b["status"] = "sent"

\* C12: no stored invoice has the status 'overdue', whatever invoice forms
\* were submitted, invoices marked as paid and quotations converted.
C12_OverdueNeverStored ==
  \A k \in DOMAIN kv : k[1] = "invoice" => kv[k]["status"] # "overdue"

C28_PriceIsSumOfSentLines ==
  \A data \in ui.sent :
    data["price"] =
      Sum([i \in DOMAIN data["lineItems"] |->
             Times(data["lineItems"][i].unitPrice,
                   data["lineItems"][i].quantity)])

\* ======================================================= one visit to a form
\* A form is opened to create a document, or to edit the document with id
\* "0"; its handleSubmit runs up to the request it awaits, the request is
\* answered later, and the navigation set up by a successful save fires
\* later still.
MaxSubmits == 2    \* requests one visit issues

\* rows of a form that differ in description and price
FormRows ==
  {row \in LineItems :
     /\ row.quantity = Str(1)
     /\ row.vatPercentage = Str(21) \/ Trim(row.description) = <<>>}

FormRowLists == UNION {[1..n -> FormRows] : n \in 1..MaxItems}

\* useState of QuotationForm / InvoiceForm, with the props and the access
\* token the form was rendered with
FormState(type, documentId, accessToken, lineItems) ==
  [page |-> (IF documentId = {} THEN "create-" ELSE "edit-") \o type,
   type |-> type, documentId |-> documentId, accessToken |-> accessToken,
   lineItems |-> lineItems, loading |-> FALSE, error |-> "", success |-> "",
   calls |-> <<>>, timers |-> 0]

\* the document an edit form was opened for
StoredBefore(type) ==
  IF type = "quotation" THEN NewQuotation("A", QuotationFormBody, 0)
  ELSE NewInvoice("A", CHOOSE data \in InvoiceFormBodies : TRUE, 0, 0)

InitForm ==
  /\ idp = ExternalUsers
  /\ now = 1
  /\ req = [s \in Slots |-> Idle]
  /\ left = 0
  /\ \E type \in {"quotation", "invoice"}, documentId \in {{}, {Str(0)}},
        accessToken \in {{}, {"A"}}, lineItems \in FormRowLists :
       /\ ui = FormState(type, documentId, accessToken, lineItems)
       /\ kv = IF documentId = {} THEN EmptyObj
               ELSE KvSet(EmptyObj, Key(type, "A", Str(0)), StoredBefore(type))

\* the form is on screen
FormShown == ui.page \in {"create-quotation", "edit-quotation",
                          "create-invoice", "edit-invoice"}

\* handleSubmit up to its await, or to its end when it throws before: the
\* submit button is disabled while loading
SubmitForm ==
  /\ FormShown
  /\ ~ui.loading
  /\ Len(ui.calls) < MaxSubmits
  /\ IF ui.accessToken = {}
     THEN ui' = [ui EXCEPT !.success = "", !.loading = FALSE,
                           !.error = "Je bent niet ingelogd. Log opnieuw in."]
     ELSE IF validLineItems(ui.lineItems) = <<>>
     THEN ui' = [ui EXCEPT !.success = "", !.loading = FALSE,
                           !.error = "Voeg minimaal een regel toe."]
     ELSE ui' = [ui EXCEPT
                   !.success = "", !.error = "", !.loading = TRUE,
                   !.calls = Append(@,
                     [method |-> IF ui.documentId = {} THEN "POST" ELSE "PUT",
                      body |-> IF ui.type = "quotation"
                               THEN quotationData(QuotationFormData,
                                                  ui.lineItems)
                               ELSE invoiceData(InvoiceFormData,
                                                ui.lineItems)])]
  /\ UNCHANGED <<kv, idp, now, req, left>>

\* the request is answered with success: the server has stored the
\* document, handleSubmit shows the success message and sets the timer
SubmitSucceeded ==
  /\ ui.loading
  /\ LET data == ui.calls[Len(ui.calls)].body
         id == IF ui.documentId = {} THEN Str(now) ELSE The(ui.documentId)
         document ==
           IF ui.documentId = {}
           THEN IF ui.type = "quotation" THEN NewQuotation("A", data, now)
                ELSE NewInvoice("A", data, KvCount(kv, "invoice", "A"), now)
           ELSE IF ui.type = "quotation"
                THEN UpdatedQuotation(kv[Key(ui.type, "A", id)], data, "A", now)
                ELSE UpdatedInvoice(kv[Key(ui.type, "A", id)], data, "A", now)
     IN kv' = KvSet(kv, Key(ui.type, "A", id), document)
  /\ ui' = [ui EXCEPT !.success = "succesvol opgeslagen!", !.loading = FALSE,
                      !.timers = @ + 1]
  /\ UNCHANGED <<idp, now, req, left>>

\* the request fails: handleSubmit shows the error
SubmitFailed ==
  /\ ui.loading
  /\ ui' = [ui EXCEPT !.error = "fout bij het opslaan", !.loading = FALSE]
  /\ UNCHANGED <<kv, idp, now, req, left>>

\* the callback of setTimeout(..., 1000) runs: onNavigate to the list
NavigateToList ==
  /\ ui.timers > 0
  /\ ui' = [ui EXCEPT !.timers = @ - 1, !.page = ui.type \o "s"]
  /\ UNCHANGED <<kv, idp, now, req, left>>

NextForm ==
  Tick \/ SubmitForm \/ SubmitSucceeded \/ SubmitFailed \/ NavigateToList

SpecForm == InitForm /\ [][NextForm]_vars

\* ---- claims about a visit to a form
\* a row with a non-blank description and a price that is a number above 0
RefValidRow(item) ==
  /\ \E i \in DOMAIN item.description : item.description[i] # " "
  /\ IsNumeric(item.unitPrice)
  /\ Amount(item.unitPrice) > 0

\* the form may send: a token is present and some row is valid
MaySend ==
  ui.accessToken # {} /\ \E i \in DOMAIN ui.lineItems : RefValidRow(ui.lineItems[i])

\* C21: a form issues a create or update request only when an access token
\* is present and some row has a non-blank description and a price above 0;
\* a submit without these (a step of the idle form that changes its state
\* and stays on it) sets an inline error, sends nothing, stores nothing and
\* leaves loading false.
C21_SubmitNeedsTokenAndLine ==
  [][/\ ui'.calls # ui.calls => MaySend
     /\ (FormShown /\ ~ui.loading /\ ui' # ui /\ ui'.page = ui.page
           /\ ~MaySend)
          => /\ ui'.calls = ui.calls
             /\ ui'.error # ""
             /\ ~ui'.loading
             /\ kv' = kv]_vars

\* a signed-in user's submit was refused for a form whose rows are one with
\* price 0 and one with a blank description
C21_Witness ==
  /\ FormShown
  /\ ui.accessToken # {}
  /\ ui.lineItems = <<LineItem(<<"D">>, Str(0), Str(1), Str(21)),
                      LineItem(<<" ">>, Str(50), Str(1), Str(9))>>
  /\ ui.error = "Voeg minimaal een regel toe."
  /\ ui.calls = <<>>
  /\ ~ui.loading

\* C27: while a create form shows the success message of a save, no step
\* issues another request, so one visit stores at most one document.
C27_OneCreatePerVisit ==
  [][(FormShown /\ ui.documentId = {} /\ ui.success # "")
       => ui'.calls = ui.calls]_vars

\* ---- further claims about the server
\* the records slot s stores as new in this step, with their types: the
\* quotation of POST /quotations, the invoice of POST /invoices and of
\* convert-to-invoice
CreatedBy(s) ==
  IF left' < left /\ req'[s].op = "POST /quotations" /\ req'[s].status = 200
  THEN {<<"quotation", q>> : q \in req'[s].ret}
  ELSE IF CreatesInvoice(s)
  THEN {<<"invoice", i>> : i \in req'[s].ret \cup req'[s].inv}
  ELSE {}

\* C22: a create stores its record under a key that holds no record yet.
C22_CreateUsesFreshKey ==
  [][\A s \in Slots : \A c \in CreatedBy(s) :
       Key(c[1], req'[s].user, c[2]["id"]) \notin DOMAIN kv]_vars

\* C23: every stored quotation and invoice carries, in its own id and userId
\* fields, the <id> and the <userId> of the key it is stored under.
C23_RecordMatchesKey ==
  \A k \in DOMAIN kv :
    k[1] \in {"quotation", "invoice"}
      => /\ Has(kv[k], "id") /\ kv[k]["id"] = k[3]
         /\ Has(kv[k], "userId") /\ kv[k]["userId"] = k[2]

\* C24: a PUT of a request handled on its own merges: a field the body does
\* not name keeps its stored value, a field the body names takes the body's
\* value unless it is id, userId or the record's sequence number, and
\* updatedAt is the time of the update.
C24_PutMerges ==
  [][\A s \in Slots :
       PutWrites(s)
         => LET type == IF req[s].op = "PUT /quotations/:id"
                        THEN "quotation" ELSE "invoice"
                k == Key(type, req[s].user, req[s].id)
                body == req'[s].body
                kept == {"id", "userId", type \o "Number", "updatedAt"} IN
            /\ k \in DOMAIN kv /\ k \in DOMAIN kv'
            /\ \A f \in DOMAIN kv[k] \ (DOMAIN body \cup {"updatedAt"}) :
                 Has(kv'[k], f) /\ kv'[k][f] = kv[k][f]
            /\ \A f \in DOMAIN body \ kept :
                 Has(kv'[k], f) /\ kv'[k][f] = body[f]
            /\ kv'[k]["updatedAt"] = ISO(now)]_vars

\* mark-as-paid has been answered 200 for an invoice created from the form:
\* the stored invoice is paid and still has the form's client, line items,
\* price and payment term, and the due date of its creation
C24_Witness ==
  \E s \in Slots :
    LET k == Key("invoice", req[s].user, req[s].id) IN
    /\ req[s].pc = "done" /\ req[s].status = 200
    /\ req[s].op = "PUT /invoices/:id"
    /\ DOMAIN req[s].body = {"status", "paidDate"}
    /\ k \in DOMAIN kv
    /\ kv[k]["status"] = "paid" /\ kv[k]["paidDate"] = req[s].body["paidDate"]
    /\ \A f \in {"clientName", "clientAddress", "lineItems", "price",
                  "paymentTermDays"} : kv[k][f] = InvoiceForm[f]
    /\ Has(kv[k], "dueDate")
    /\ kv[k]["createdAt"] # kv[k]["updatedAt"]

\* C25: a request answered 400, 401, 404 or 500 has changed the store in
\* none of its steps. Requests are handled one at a time; a step that writes
\* and leaves its request in flight keeps what it wrote in inv, so a request
\* has written before its last step exactly when its inv is not empty.
C25_ErrorLeavesStore ==
  [][\A s \in Slots :
       req'[s] # req[s]
         => /\ (kv' # kv /\ req'[s].pc \notin {"done", "threw"})
                 => req'[s].inv # {}
            /\ (req'[s].pc = "done" /\ req'[s].status \in {400, 401, 404, 500})
                 => kv' = kv /\ req[s].inv = {}]_vars

\* C26: a quotation or invoice key that holds no record, as after an
\* answered DELETE, gets a record only by a create that stores that id; no step of a PUT or of a
\* conversion that had read the record before brings it back.
C26_DeletedStaysDeleted ==
  [][\A k \in DOMAIN kv' \ DOMAIN kv :
       k[1] \in {"quotation", "invoice"}
         => \E s \in Slots : \E c \in CreatedBy(s) :
              k = Key(c[1], req'[s].user, c[2]["id"])]_vars

\* ======================================================= the App's routing
\* AppContent of App.tsx with the user and loading of AuthContext. A page
\* name is held as its literal head, whether "?client=" follows, and the id
\* at its end (0: none): 'quotations' is Page("quotations", FALSE, 0),
\* `edit-quotation-${id}` is Page("edit-quotation-", FALSE, id) and
\* `create-invoice?client=${id}` is Page("create-invoice", TRUE, id). No head
\* is a prefix of another, so === and startsWith decide as on the strings.
MaxIds == 2    \* ids a page name can carry

Page(head, query, id) == [head |-> head, query |-> query, id |-> id]

\* currentPage === name
IsPage(currentPage, name) == currentPage = Page(name, FALSE, 0)

\* currentPage.startsWith(prefix)
StartsWith(currentPage, prefix) == currentPage.head = prefix

\* a component with the id it gets as a prop (0: none)
Component(name, id) == [component |-> name, id |-> id]

\* mutant of Render: the pages are chosen without looking at the user
RenderWithoutUser(user, loading, currentPage) ==
  IF loading THEN Component("Laden...", 0)
  ELSE IF IsPage(currentPage, "signin") \/ IsPage(currentPage, "signup")
  THEN Component("AuthPages", 0)
  ELSE IF IsPage(currentPage, "landing") THEN Component("LandingPage", 0)
  ELSE IF IsPage(currentPage, "settings") THEN Component("Settings", 0)
  ELSE Component("Dashboard", 0)

\* what AppContent returns
Render(user, loading, currentPage) ==
  IF loading THEN Component("Laden...", 0)
  ELSE IF user = {}
  THEN IF IsPage(currentPage, "signin") \/ IsPage(currentPage, "signup")
       THEN Component("AuthPages", 0)
       ELSE Component("LandingPage", 0)
  ELSE IF IsPage(currentPage, "dashboard") THEN Component("Dashboard", 0)
  ELSE IF IsPage(currentPage, "create-quotation")
  THEN Component("QuotationForm", 0)
  ELSE IF StartsWith(currentPage, "edit-quotation-")
  THEN Component("QuotationForm", currentPage.id)
  ELSE IF IsPage(currentPage, "quotations") THEN Component("QuotationsList", 0)
  ELSE IF StartsWith(currentPage, "quotation-detail-")
  THEN Component("QuotationDetail", currentPage.id)
  ELSE IF IsPage(currentPage, "create-invoice")
  THEN Component("InvoiceForm", 0)
  ELSE IF StartsWith(currentPage, "edit-invoice-")
  THEN Component("InvoiceForm", currentPage.id)
  ELSE IF IsPage(currentPage, "invoices") THEN Component("InvoicesList", 0)
  ELSE IF StartsWith(currentPage, "invoice-detail-")
  THEN Component("InvoiceDetail", currentPage.id)
  ELSE IF IsPage(currentPage, "create-client") THEN Component("ClientForm", 0)
  ELSE IF StartsWith(currentPage, "edit-client-")
  THEN Component("ClientForm", currentPage.id)
  ELSE IF IsPage(currentPage, "clients") THEN Component("ClientsList", 0)
  ELSE IF StartsWith(currentPage, "client-detail-")
  THEN Component("ClientDetail", currentPage.id)
  ELSE IF IsPage(currentPage, "settings") THEN Component("Settings", 0)
  ELSE Component("Dashboard", 0)

\* the state of AuthProvider and AppContent, and what is on screen
AppState(user, loading, currentPage, authMode) ==
  [user |-> user, loading |-> loading, currentPage |-> currentPage,
   authMode |-> authMode, rendered |-> Render(user, loading, currentPage)]

\* the page strings the components pass to onNavigate
NavTargets ==
  {Page(head, FALSE, 0) :
     head \in {"dashboard", "create-quotation", "quotations", "create-invoice",
               "invoices", "create-client", "clients", "settings"}}
  \cup {Page(head, FALSE, id) :
          head \in {"edit-quotation-", "quotation-detail-", "edit-invoice-",
                    "invoice-detail-", "edit-client-", "client-detail-"},
          id \in 1..MaxIds}
  \cup {Page(head, TRUE, id) :
          head \in {"create-quotation", "create-invoice"}, id \in 1..MaxIds}

PublicPages == {Page(head, FALSE, 0) : head \in {"landing", "signin", "signup"}}

InitApp ==
  /\ kv = EmptyObj
  /\ idp = ExternalUsers
  /\ now = 1
  /\ req = [s \in Slots |-> Idle]
  /\ left = 0
  /\ ui = AppState({}, TRUE, Page("landing", FALSE, 0), "signin")

\* the redirect effect of the last render has something to do
EffectDue ==
  /\ ~ui.loading
  /\ \/ ui.user # {} /\ ui.currentPage \in PublicPages
     \/ ui.user = {} /\ ui.currentPage \notin PublicPages

\* the useEffect of AppContent; React runs it after the render and before
\* it handles the next event
RedirectEffect ==
  /\ EffectDue
  /\ ui' = AppState(ui.user, ui.loading,
                    IF ui.user # {} THEN Page("dashboard", FALSE, 0)
                    ELSE Page("landing", FALSE, 0),
                    ui.authMode)
  /\ UNCHANGED <<kv, idp, now, req, left>>

\* checkSession of AuthProvider ends: the user of the session, if there is
\* one, and loading false
CheckSession ==
  /\ ui.loading
  /\ \E user \in {ui.user, {"A"}} :
       ui' = AppState(user, FALSE, ui.currentPage, ui.authMode)
  /\ UNCHANGED <<kv, idp, now, req, left>>

\* setUser of signIn, of signOut and of the onAuthStateChange listener
AuthStateChange ==
  /\ ~EffectDue
  /\ \E user \in {{}, {"A"}} \ {ui.user} :
       ui' = AppState(user, ui.loading, ui.currentPage, ui.authMode)
  /\ UNCHANGED <<kv, idp, now, req, left>>

\* handleNavigate, called by the page on screen; the targets with
\* "?client=" are those of the client detail page, with its own client
HandleNavigate ==
  /\ ~EffectDue
  /\ ui.rendered.component \notin {"Laden...", "LandingPage", "AuthPages"}
  /\ \E page \in NavTargets :
       /\ page.query => ui.rendered = Component("ClientDetail", page.id)
       /\ ui' = AppState(ui.user, ui.loading, page, ui.authMode)
  /\ UNCHANGED <<kv, idp, now, req, left>>

\* onSignUp and onSignIn of the landing page
LandingPageEvent ==
  /\ ~EffectDue
  /\ ui.rendered.component = "LandingPage"
  /\ \E mode \in {"signin", "signup"} :
       ui' = AppState(ui.user, ui.loading, Page(mode, FALSE, 0), mode)
  /\ UNCHANGED <<kv, idp, now, req, left>>

\* onBack and onModeChange of the sign-in/sign-up page
AuthPagesEvent ==
  /\ ~EffectDue
  /\ ui.rendered.component = "AuthPages"
  /\ \/ ui' = AppState(ui.user, ui.loading, Page("landing", FALSE, 0),
                       ui.authMode)
     \/ \E mode \in {"signin", "signup"} :
          ui' = AppState(ui.user, ui.loading, ui.currentPage, mode)
  /\ UNCHANGED <<kv, idp, now, req, left>>

NextApp ==
  \/ RedirectEffect \/ CheckSession \/ AuthStateChange \/ HandleNavigate
  \/ LandingPageEvent \/ AuthPagesEvent

SpecApp == InitApp /\ [][NextApp]_vars

\* ---- claims about the routing
\* no user is signed in and the session check has ended
SignedOut(state) == ~state.loading /\ state.user = {}

\* C29: whenever loading is false and user is null, the App shows the
\* landing page or the sign-in/sign-up page, whatever currentPage holds; and
\* when currentPage then names a protected page, the next step is the
\* redirect effect setting currentPage to 'landing', with still no
\* protected page shown.
C29_NoProtectedPageWithoutUser ==
  [][/\ SignedOut(ui)
          => ui.rendered.component \in {"LandingPage", "AuthPages"}
     /\ SignedOut(ui')
          => ui'.rendered.component \in {"LandingPage", "AuthPages"}
     /\ (SignedOut(ui) /\ ui.currentPage \notin PublicPages)
          => /\ ui'.currentPage = Page("landing", FALSE, 0)
             /\ SignedOut(ui')]_vars

\* the user has just been signed out on the settings page: currentPage
\* still names it and the landing page is shown
C29_Witness ==
  /\ SignedOut(ui)
  /\ ui.currentPage = Page("settings", FALSE, 0)
  /\ ui.rendered = Component("LandingPage", 0)

\* the component a page name names, by its head
NamedBy(page) ==
  LET form == [head \in {"create-quotation", "edit-quotation-"} |-> "QuotationForm"]
                @@ [head \in {"create-invoice", "edit-invoice-"} |-> "InvoiceForm"]
                @@ [head \in {"create-client", "edit-client-"} |-> "ClientForm"]
      other == ("dashboard" :> "Dashboard") @@ ("quotations" :> "QuotationsList")
                 @@ ("invoices" :> "InvoicesList") @@ ("clients" :> "ClientsList")
                 @@ ("settings" :> "Settings")
                 @@ ("quotation-detail-" :> "QuotationDetail")
                 @@ ("invoice-detail-" :> "InvoiceDetail")
                 @@ ("client-detail-" :> "ClientDetail")
  IN (form @@ other)[page.head]

\* C30: while a user is signed in, a page string passed to onNavigate is
\* shown as the page it names: the form, list, detail page, dashboard or
\* settings of its head, also when "?client=<id>" follows the head.
C30_NavigationReachesNamedPage ==
  (~ui.loading /\ ui.user # {} /\ ui.currentPage \in NavTargets)
    => ui.rendered.component = NamedBy(ui.currentPage)

====
